---- MODULE Spec2Model ----
(***************************************************************************)
(* Task orchestration CLI (taskctl): dependency-gated tasks moving through *)
(* todo -> in_progress -> done/blocked, persisted in task.status.json      *)
(* (taskctl.mjs) or in task.db with an exported task.status.json           *)
(* (src/index.ts).                                                         *)
(*                                                                         *)
(* Spec                one orchestrator issuing CLI commands one after the *)
(*                     other against the file-backed store.                *)
(* SpecFileConcurrent  two taskctl.mjs processes, each running one command *)
(*                     against the same task.status.json.                  *)
(* SpecDbConcurrent    two src/index.ts processes, each running one        *)
(*                     command against the same task.db.                   *)
(* SpecBackends        the same commands given to taskctl.mjs in one       *)
(*                     directory and to src/index.ts in another.           *)
(* SpecCycles          detectDependencyCycles of generate-task-graph.mjs   *)
(*                     run on every small task list.                       *)
(* SpecGenerator       the graph generator run on every small tasks.yaml.  *)
(* SpecPlans           loadPlan of taskctl run on every small plan.        *)
(* SpecExcerpt         resolveSpecExcerpt of taskctl run on SPEC.md files  *)
(*                     of about 200 lines.                                 *)
(* SpecLoop            the orchestrator's loop init, dispatch, complete,   *)
(*                     with any worker answers.                            *)
(* SpecLoad            init, status and ready run on a task.status.json    *)
(*                     left for an earlier version of the plan.            *)
(* SpecProgress        dispatch and complete under fair scheduling, every  *)
(*                     worker reporting done.                              *)
(* SpecAccepted        the commands of Spec on every two-task plan         *)
(*                     loadPlan accepts.                                   *)
(* SpecTerminal        every command on the chain T1 <- T2 <- T3.          *)
(***************************************************************************)
EXTENDS Integers, Sequences, FiniteSets, TLC

VARIABLES
  plan,     \* the plan loadPlan returns: [taskOrder, blocked_by]
  file,     \* task.status.json: [exists, summary, tasks]
  out,      \* what the last command printed, with its exit status
  db,       \* task.db: the rows of tasks with their task_arrays, by task_id
  dbLock,   \* the process holding the write transaction on task.db
  proc,     \* the concurrent CLI processes: [pc, inv, task, status]
  hist,     \* the store the concurrent processes started from
  dbFile    \* the task.status.json src/index.ts exports, where it works in
            \* a directory of its own (SpecBackends)

vars == <<plan, file, out, db, dbLock, proc, hist, dbFile>>

\* what the single orchestrator of Spec never touches
conc == <<db, dbLock, proc, hist, dbFile>>

----------------------------------------------------------------------------
(* Bounds and input alphabets                                              *)

\* start/dispatch are not issued for a task that already has this many attempts
MaxAttempts == 2

\* a task ID that no plan declares
UnknownTask == "TX"

\* timestamps: new Date().toISOString() is some non-empty string
NULL == "null"
Timestamp == "ts"

VALID_STATES == {"todo", "in_progress", "done", "blocked"}
VALID_RESULTS == {"done", "blocked", "failed"}

\* --owner values given to start/dispatch
StartOwners == {"o1"}

NoReport == [summary |-> "", files |-> <<>>, tests |-> <<>>, next |-> <<>>]

\* what a worker reports back: --summary, --files, --tests, --next, each list
\* as it is after the comma split, before empty items are dropped
Report1 == [summary |-> "s1", files |-> <<>>, tests |-> <<>>, next |-> <<>>]
Report2 == [summary |-> "s2", files |-> <<"f1", "">>, tests |-> <<"t1">>, next |-> <<"T2">>]

\* the complete invocations tried: --result, the report, --blockers (after the
\* comma split) and the optional --owner
CompleteArgs ==
  { [result |-> "done",    report |-> Report2, blockers |-> <<"ext">>,      owner |-> "o2"],
    [result |-> "failed",  report |-> Report1, blockers |-> <<>>,           owner |-> ""],
    [result |-> "blocked", report |-> Report1, blockers |-> <<"">>,         owner |-> ""],
    [result |-> "blocked", report |-> Report2, blockers |-> <<"", "T1">>,   owner |-> ""],
    [result |-> "blocked", report |-> Report1, blockers |-> <<"T1", "T2">>, owner |-> ""],
    [result |-> "bogus",   report |-> Report1, blockers |-> <<>>,           owner |-> ""] }

----------------------------------------------------------------------------
(* Plans                                                                   *)

Range(s) == { s[i] : i \in 1..Len(s) }

PlanIds(p) == Range(p.taskOrder)

\* the documents offered to loadPlan (task.graph.json / tasks.yaml): a chain,
\* two independent tasks, a self dependency, an unknown dependency
PlanDocs ==
  { [taskOrder |-> <<"T1", "T2">>,
     blocked_by |-> [t \in {"T1", "T2"} |-> IF t = "T2" THEN <<"T1">> ELSE <<>>]],
    [taskOrder |-> <<"T1", "T2">>,
     blocked_by |-> [t \in {"T1", "T2"} |-> <<>>]],
    [taskOrder |-> <<"T1", "T2">>,
     blocked_by |-> [t \in {"T1", "T2"} |-> IF t = "T2" THEN <<"T2">> ELSE <<>>]],
    [taskOrder |-> <<"T1", "T2">>,
     blocked_by |-> [t \in {"T1", "T2"} |-> IF t = "T2" THEN <<"T9">> ELSE <<>>]] }

\* validateDependencies: fail on an unknown dependency or a self dependency
validateDependencies(p) ==
  \A t \in PlanIds(p) :
    \A i \in 1..Len(p.blocked_by[t]) :
      /\ p.blocked_by[t][i] \in PlanIds(p)
      /\ p.blocked_by[t][i] # t

\* loadPlan returns only for documents that pass validateDependencies
loadPlan == { p \in PlanDocs : validateDependencies(p) }

----------------------------------------------------------------------------
(* Status records                                                          *)

defaultTaskStatus ==
  [ state |-> "todo", owner |-> "", attempts |-> 0,
    started_at |-> NULL, finished_at |-> NULL,
    blockers |-> <<>>, files_changed |-> <<>>, tests_run |-> <<>>,
    result_summary |-> "", next_unblocked_tasks |-> <<>> ]

normalizeState(value) == IF value \in VALID_STATES THEN value ELSE "todo"

\* .map(normalizeString).filter(Boolean)
filterBoolean(items) ==
  IF \A i \in 1..Len(items) : items[i] # "" THEN items
  ELSE SelectSeq(items, LAMBDA x : x # "")

\* toStringArray: the split items, trimmed, empty ones dropped
toStringArray(value) == filterBoolean(value)

normalizeTaskStatusRecord(record) ==
  [ state |-> normalizeState(record.state),
    owner |-> record.owner,
    attempts |-> IF record.attempts > 0 THEN record.attempts ELSE 0,
    started_at |-> IF record.started_at = "" THEN NULL ELSE record.started_at,
    finished_at |-> IF record.finished_at = "" THEN NULL ELSE record.finished_at,
    blockers |-> filterBoolean(record.blockers),
    files_changed |-> filterBoolean(record.files_changed),
    tests_run |-> filterBoolean(record.tests_run),
    result_summary |-> record.result_summary,
    next_unblocked_tasks |-> filterBoolean(record.next_unblocked_tasks) ]

\* variant: summary[state] = 1 where the code has summary[state] += 1
summarizeTasksAssign(tasks, taskOrder) ==
  [ s \in VALID_STATES |->
      IF \E i \in 1..Len(taskOrder) : tasks[taskOrder[i]].state = s THEN 1 ELSE 0 ]

RECURSIVE CountState(_, _, _, _)
CountState(tasks, taskOrder, state, i) ==
  IF i > Len(taskOrder) THEN 0
  ELSE (IF tasks[taskOrder[i]].state = state THEN 1 ELSE 0)
       + CountState(tasks, taskOrder, state, i + 1)

summarizeTasks(tasks, taskOrder) ==
  [ s \in VALID_STATES |-> CountState(tasks, taskOrder, s, 1) ]

\* variant: blockers.some(...) where the code has blockers.every(...)
canUnblockFromDependenciesSome(blockers, tasks, knownTaskIds) ==
  IF Len(blockers) = 0 THEN FALSE
  ELSE IF \E i \in 1..Len(blockers) : blockers[i] \notin knownTaskIds THEN FALSE
  ELSE \E i \in 1..Len(blockers) : tasks[blockers[i]].state = "done"

canUnblockFromDependencies(blockers, tasks, knownTaskIds) ==
  IF Len(blockers) = 0 THEN FALSE
  ELSE IF \E i \in 1..Len(blockers) : blockers[i] \notin knownTaskIds THEN FALSE
  ELSE \A i \in 1..Len(blockers) : tasks[blockers[i]].state = "done"

\* variant: the record loop without the resetInProgress branch
LoadRecordNoReset(f, taskId, resetInProgress) ==
  IF taskId \in DOMAIN f.tasks
  THEN normalizeTaskStatusRecord(f.tasks[taskId])
  ELSE defaultTaskStatus

\* variant: the resetInProgress branch also starts the attempts over
LoadRecordResetAttempts(f, taskId, resetInProgress) ==
  LET record == IF taskId \in DOMAIN f.tasks
                THEN normalizeTaskStatusRecord(f.tasks[taskId])
                ELSE defaultTaskStatus
  IN IF resetInProgress /\ record.state = "in_progress"
     THEN [record EXCEPT !.state = "todo", !.owner = "", !.attempts = 0]
     ELSE record

\* variant: the record loop resets in_progress whatever the command
LoadRecordAlwaysReset(f, taskId, resetInProgress) ==
  LET record == IF taskId \in DOMAIN f.tasks
                THEN normalizeTaskStatusRecord(f.tasks[taskId])
                ELSE defaultTaskStatus
  IN IF record.state = "in_progress"
     THEN [record EXCEPT !.state = "todo", !.owner = ""]
     ELSE record

\* the record loop of loadStatus: stored record or default, in_progress reset
LoadRecord(f, taskId, resetInProgress) ==
  LET record == IF taskId \in DOMAIN f.tasks
                THEN normalizeTaskStatusRecord(f.tasks[taskId])
                ELSE defaultTaskStatus
  IN IF resetInProgress /\ record.state = "in_progress"
     THEN [record EXCEPT !.state = "todo", !.owner = ""]
     ELSE record

\* the reevaluateBlocked loop of loadStatus, in declaration order, in place
RECURSIVE ReevaluateBlocked(_, _, _)
ReevaluateBlocked(tasks, p, i) ==
  IF i > Len(p.taskOrder) THEN tasks
  ELSE LET taskId == p.taskOrder[i]
           record == tasks[taskId]
       IN IF record.state = "blocked"
             /\ canUnblockFromDependencies(record.blockers, tasks, PlanIds(p))
          THEN ReevaluateBlocked(
                 [tasks EXCEPT ![taskId] =
                    [record EXCEPT !.state = "todo", !.blockers = <<>>]], p, i + 1)
          ELSE ReevaluateBlocked(tasks, p, i + 1)

\* variant: the summary is taken before the reevaluateBlocked loop
loadStatusSummaryFirst(f, p, resetInProgress, reevaluateBlocked) ==
  LET tasks0 == [t \in PlanIds(p) |-> LoadRecord(f, t, resetInProgress)]
      tasks == IF reevaluateBlocked THEN ReevaluateBlocked(tasks0, p, 1) ELSE tasks0
  IN [ summary |-> summarizeTasks(tasks0, p.taskOrder), tasks |-> tasks ]

\* variant: the records stored for tasks no longer in the plan are kept
loadStatusKeepKeys(f, p, resetInProgress, reevaluateBlocked) ==
  LET tasks0 == [t \in PlanIds(p) \cup DOMAIN f.tasks |-> LoadRecord(f, t, resetInProgress)]
      tasks == IF reevaluateBlocked THEN ReevaluateBlocked(tasks0, p, 1) ELSE tasks0
  IN [ summary |-> summarizeTasks(tasks, p.taskOrder), tasks |-> tasks ]

loadStatus(f, p, resetInProgress, reevaluateBlocked) ==
  LET tasks0 == [t \in PlanIds(p) |-> LoadRecord(f, t, resetInProgress)]
      tasks == IF reevaluateBlocked THEN ReevaluateBlocked(tasks0, p, 1) ELSE tasks0
  IN [ summary |-> summarizeTasks(tasks, p.taskOrder), tasks |-> tasks ]

\* writeStatus: the whole status object replaces the file
writeStatus(status) ==
  [ exists |-> TRUE, summary |-> status.summary, tasks |-> status.tasks ]

\* variant: a dependency counts as resolved unless it is blocked
taskIsUnblockedNotBlocked(p, taskId, status) ==
  \A i \in 1..Len(p.blocked_by[taskId]) :
    status.tasks[p.blocked_by[taskId][i]].state # "blocked"

\* variant: blocked_by.some(...) where the code has blocked_by.every(...)
taskIsUnblockedSome(p, taskId, status) ==
  \E i \in 1..Len(p.blocked_by[taskId]) :
    status.tasks[p.blocked_by[taskId][i]].state = "done"

\* variant: only a task without dependencies counts as unblocked
taskIsUnblockedNoDeps(p, taskId, status) == p.blocked_by[taskId] = <<>>

taskIsUnblocked(p, taskId, status) ==
  \A i \in 1..Len(p.blocked_by[taskId]) :
    status.tasks[p.blocked_by[taskId][i]].state = "done"

getReadyTaskIds(p, status) ==
  SelectSeq(p.taskOrder,
            LAMBDA t : status.tasks[t].state = "todo" /\ taskIsUnblocked(p, t, status))

----------------------------------------------------------------------------
(* Target resolution, delegation payload, the two transitions              *)

\* variant: resolveTaskForPrompt taking the last ready task
resolveTaskForPromptLastReady(p, status, explicitTaskId) ==
  IF explicitTaskId # ""
  THEN IF explicitTaskId \notin PlanIds(p)
       THEN [err |-> "unknown_task", task |-> explicitTaskId]
       ELSE [err |-> "", task |-> explicitTaskId]
  ELSE LET ready == getReadyTaskIds(p, status)
       IN IF Len(ready) = 0
          THEN [err |-> "no_ready_tasks", task |-> ""]
          ELSE [err |-> "", task |-> ready[Len(ready)]]

\* resolveTaskForPrompt: the explicit task if given ("" when omitted), else
\* the first ready task; err names the fail() taken
resolveTaskForPrompt(p, status, explicitTaskId) ==
  IF explicitTaskId # ""
  THEN IF explicitTaskId \notin PlanIds(p)
       THEN [err |-> "unknown_task", task |-> explicitTaskId]
       ELSE [err |-> "", task |-> explicitTaskId]
  ELSE LET ready == getReadyTaskIds(p, status)
       IN IF Len(ready) = 0
          THEN [err |-> "no_ready_tasks", task |-> ""]
          ELSE [err |-> "", task |-> ready[1]]

\* variant: buildDelegationPayload without its unresolved-dependency test
buildDelegationPayloadErrorNoDeps(p, status, taskId) ==
  IF taskId \notin PlanIds(p) THEN "unknown_task"
  ELSE IF status.tasks[taskId].state # "todo" THEN "not_dispatchable"
  ELSE ""

\* the fail() buildDelegationPayload takes, "" when it returns a payload
buildDelegationPayloadError(p, status, taskId) ==
  IF taskId \notin PlanIds(p) THEN "unknown_task"
  ELSE IF status.tasks[taskId].state # "todo" THEN "not_dispatchable"
  ELSE IF \E i \in 1..Len(p.blocked_by[taskId]) :
            status.tasks[p.blocked_by[taskId][i]].state # "done"
       THEN "blocked_by"
  ELSE ""

\* payload.dependency_results, in blocked_by order
dependencyResults(p, status, taskId) ==
  [ i \in 1..Len(p.blocked_by[taskId]) |->
      [ task_id |-> p.blocked_by[taskId][i],
        result_summary |-> status.tasks[p.blocked_by[taskId][i]].result_summary,
        files_changed |-> status.tasks[p.blocked_by[taskId][i]].files_changed ] ]

\* variant: markTaskStarted without its todo check
markTaskStartedErrorNoStateCheck(p, status, taskId) ==
  IF taskId \notin PlanIds(p) THEN "unknown_task"
  ELSE IF ~taskIsUnblocked(p, taskId, status) THEN "blocked_by"
  ELSE ""

\* the fail() markTaskStarted takes, "" when it mutates the record
markTaskStartedError(p, status, taskId) ==
  IF taskId \notin PlanIds(p) THEN "unknown_task"
  ELSE IF ~taskIsUnblocked(p, taskId, status) THEN "blocked_by"
  ELSE IF status.tasks[taskId].state # "todo" THEN "not_todo"
  ELSE ""

\* variant: markTaskStarted without record.files_changed = []
startedRecordKeepFiles(record, owner) ==
  [ record EXCEPT !.state = "in_progress",
                  !.owner = owner,
                  !.attempts = record.attempts + 1,
                  !.started_at = Timestamp,
                  !.finished_at = NULL,
                  !.blockers = <<>>,
                  !.tests_run = <<>>,
                  !.result_summary = "",
                  !.next_unblocked_tasks = <<>> ]

\* variant: markTaskStarted without record.attempts += 1
startedRecordNoIncrement(record, owner) ==
  [ record EXCEPT !.state = "in_progress",
                  !.owner = owner,
                  !.started_at = Timestamp,
                  !.finished_at = NULL,
                  !.blockers = <<>>,
                  !.files_changed = <<>>,
                  !.tests_run = <<>>,
                  !.result_summary = "",
                  !.next_unblocked_tasks = <<>> ]

\* variant: markTaskStarted without record.finished_at = null
startedRecordKeepFinished(record, owner) ==
  [ record EXCEPT !.state = "in_progress",
                  !.owner = owner,
                  !.attempts = record.attempts + 1,
                  !.started_at = Timestamp,
                  !.blockers = <<>>,
                  !.files_changed = <<>>,
                  !.tests_run = <<>>,
                  !.result_summary = "",
                  !.next_unblocked_tasks = <<>> ]

\* the record markTaskStarted leaves behind
startedRecord(record, owner) ==
  [ record EXCEPT !.state = "in_progress",
                  !.owner = owner,
                  !.attempts = record.attempts + 1,
                  !.started_at = Timestamp,
                  !.finished_at = NULL,
                  !.blockers = <<>>,
                  !.files_changed = <<>>,
                  !.tests_run = <<>>,
                  !.result_summary = "",
                  !.next_unblocked_tasks = <<>> ]

\* status.summary = summarizeTasks(status.tasks, plan.taskOrder) after a mutation
resummarize(p, tasks) ==
  [ summary |-> summarizeTasks(tasks, p.taskOrder), tasks |-> tasks ]

markTaskStarted(p, status, taskId, owner) ==
  resummarize(p, [status.tasks EXCEPT ![taskId] = startedRecord(status.tasks[taskId], owner)])

\* variant: commandComplete without its test of the record's state
completeErrorAnyState(p, status, taskId) ==
  IF taskId \notin PlanIds(p) THEN "unknown_task" ELSE ""

\* the fail() commandComplete takes after loading, "" when it mutates
completeError(p, status, taskId) ==
  IF taskId \notin PlanIds(p) THEN "unknown_task"
  ELSE IF status.tasks[taskId].state \notin {"in_progress", "todo"}
       THEN "cannot_complete"
  ELSE ""

\* variant: the synthetic blocker does not name the reported result
blockedBlockersFixed(result, blockers) ==
  IF Len(blockers) > 0 THEN blockers ELSE <<"task reported blocked">>

\* variant: record.blockers is --blockers as given, without the synthetic entry
blockedBlockersAsGiven(result, blockers) == blockers

\* record.blockers for a result other than done
blockedBlockers(result, blockers) ==
  IF Len(blockers) > 0 THEN blockers
  ELSE IF result = "failed" THEN <<"task reported failed">>
  ELSE <<"task reported blocked">>

\* the record commandComplete leaves behind
completedRecord(record, result, report, blockers, owner) ==
  [ record EXCEPT
      !.started_at = IF record.started_at = NULL THEN Timestamp ELSE record.started_at,
      !.owner = IF owner # "" THEN owner ELSE record.owner,
      !.result_summary = report.summary,
      !.files_changed = toStringArray(report.files),
      !.tests_run = toStringArray(report.tests),
      !.next_unblocked_tasks = toStringArray(report.next),
      !.finished_at = Timestamp,
      !.state = IF result = "done" THEN "done" ELSE "blocked",
      !.blockers = IF result = "done" THEN <<>> ELSE blockedBlockers(result, blockers) ]

----------------------------------------------------------------------------
(* Commands of the file-backed CLI, one orchestrator                       *)

NoSummary == [ s \in VALID_STATES |-> 0 ]

\* out: the command, its target (once resolved), its exit status and the fail()
\* taken; for a command that succeeded the ready list and summary it printed
\* and the owner, result, blockers and report it was given; for a start or
\* dispatch that succeeded the attempts its target had when loaded; for
\* init, ready and status whether it repeats a load (reload); for a complete
\* that succeeded whether it comes right after the start of its target
\* (direct)
Output(cmd, task, ok, err) ==
  [ cmd |-> cmd, task |-> task, ok |-> ok, err |-> err,
    ready |-> <<>>, summary |-> NoSummary, deps |-> <<>>,
    owner |-> "", result |-> "", blockers |-> <<>>, report |-> NoReport,
    attempts |-> 0, reload |-> FALSE, direct |-> FALSE ]

\* init, ready and status: load, persist and print, with no transition
LoadingCommands == { "init", "ready", "status" }

\* the last command was the successful start or dispatch of this task
StartedBy(o, taskId) ==
  o.ok /\ o.cmd \in { "start", "dispatch" } /\ o.task = taskId

\* the command comes right after a loading command that loaded with the
\* same options or with resetInProgress as well
Reloads(last, cmd) ==
  /\ last \in LoadingCommands
  /\ cmd = "init" => last = "init"

TaskArgs == { "T1", "T2", UnknownTask }

\* no task.status.json yet
EmptyFile ==
  [ exists |-> FALSE, summary |-> NoSummary,
    tasks |-> [ t \in {} |-> defaultTaskStatus ] ]

\* a task.db openStateDb has just created: no row in tasks
EmptyDb == [ t \in {} |-> defaultTaskStatus ]

Procs == { "p1", "p2" }
NoProc == "none"

\* a command line: the command, --task, --owner, --result, the report and
\* --blockers
Invocation(cmd, task, owner, a) ==
  [ cmd |-> cmd, task |-> task, owner |-> owner,
    result |-> a.result, report |-> a.report, blockers |-> a.blockers ]

NoArgs == [ result |-> "", report |-> NoReport, blockers |-> <<>> ]

NoStatus == [ summary |-> NoSummary, tasks |-> [ t \in {} |-> defaultTaskStatus ] ]

\* a process that has not been launched
IdleProc ==
  [ pc |-> "idle", inv |-> Invocation("none", "", "", NoArgs), task |-> "",
    status |-> NoStatus ]

Init ==
  /\ plan \in loadPlan
  /\ file = EmptyFile
  /\ out = Output("none", "", TRUE, "")
  /\ db = EmptyDb
  /\ dbLock = NoProc
  /\ proc = [ pr \in Procs |-> IdleProc ]
  /\ hist = [ file0 |-> EmptyFile, db0 |-> EmptyDb ]
  /\ dbFile = EmptyFile

commandInit ==
  LET status == loadStatus(file, plan, TRUE, TRUE)
  IN /\ file' = writeStatus(status)
     /\ out' = [ Output("init", "", TRUE, "") EXCEPT
                   !.summary = status.summary,
                   !.reload = Reloads(out.cmd, "init") ]
     /\ UNCHANGED <<plan, conc>>

commandReady ==
  LET status == loadStatus(file, plan, FALSE, TRUE)
  IN /\ file' = writeStatus(status)
     /\ out' = [ Output("ready", "", TRUE, "") EXCEPT
                   !.summary = status.summary,
                   !.ready = getReadyTaskIds(plan, status),
                   !.reload = Reloads(out.cmd, "ready") ]
     /\ UNCHANGED <<plan, conc>>

commandStatus ==
  LET status == loadStatus(file, plan, FALSE, TRUE)
  IN /\ file' = writeStatus(status)
     /\ out' = [ Output("status", "", TRUE, "") EXCEPT
                   !.summary = status.summary,
                   !.ready = getReadyTaskIds(plan, status),
                   !.reload = Reloads(out.cmd, "status") ]
     /\ UNCHANGED <<plan, conc>>

commandPrompt(taskId) ==
  LET status == loadStatus(file, plan, FALSE, TRUE)
      resolved == resolveTaskForPrompt(plan, status, taskId)
      err == IF resolved.err # "" THEN resolved.err
             ELSE buildDelegationPayloadError(plan, status, resolved.task)
  IN /\ file' = writeStatus(status)
     /\ out' = IF err # ""
               THEN Output("prompt", resolved.task, FALSE, err)
               ELSE [ Output("prompt", resolved.task, TRUE, "") EXCEPT
                        !.deps = dependencyResults(plan, status, resolved.task) ]
     /\ UNCHANGED <<plan, conc>>

commandStart(taskId, owner) ==
  LET status == loadStatus(file, plan, FALSE, TRUE)
      err == markTaskStartedError(plan, status, taskId)
      started == markTaskStarted(plan, status, taskId, owner)
  IN /\ taskId \in PlanIds(plan) => status.tasks[taskId].attempts < MaxAttempts
     /\ IF err # ""
        THEN /\ out' = Output("start", taskId, FALSE, err)
             /\ UNCHANGED file
        ELSE /\ file' = writeStatus(started)
             /\ out' = [ Output("start", taskId, TRUE, "") EXCEPT
                           !.owner = owner, !.summary = started.summary,
                           !.attempts = status.tasks[taskId].attempts ]
     /\ UNCHANGED <<plan, conc>>

commandDispatch(taskId, owner) ==
  LET status == loadStatus(file, plan, FALSE, TRUE)
      resolved == resolveTaskForPrompt(plan, status, taskId)
      err == IF resolved.err # "" THEN resolved.err
             ELSE IF buildDelegationPayloadError(plan, status, resolved.task) # ""
                  THEN buildDelegationPayloadError(plan, status, resolved.task)
             ELSE markTaskStartedError(plan, status, resolved.task)
      started == markTaskStarted(plan, status, resolved.task, owner)
  IN /\ resolved.task \in PlanIds(plan)
          => status.tasks[resolved.task].attempts < MaxAttempts
     /\ IF err # ""
        THEN /\ out' = Output("dispatch", resolved.task, FALSE, err)
             /\ UNCHANGED file
        ELSE /\ file' = writeStatus(started)
             /\ out' = [ Output("dispatch", resolved.task, TRUE, "") EXCEPT
                           !.owner = owner, !.summary = started.summary,
                           !.deps = dependencyResults(plan, status, resolved.task),
                           !.attempts = status.tasks[resolved.task].attempts ]
     /\ UNCHANGED <<plan, conc>>

commandComplete(taskId, result, report, blockersArg, owner) ==
  LET status == loadStatus(file, plan, FALSE, TRUE)
      err == IF result \notin VALID_RESULTS THEN "bad_result"
             ELSE completeError(plan, status, taskId)
      completed == resummarize(plan,
                     [ status.tasks EXCEPT ![taskId] =
                         completedRecord(status.tasks[taskId], result, report,
                                         toStringArray(blockersArg), owner) ])
  IN /\ IF err # ""
        THEN /\ out' = Output("complete", IF err = "bad_result" THEN "" ELSE taskId, FALSE, err)
             /\ UNCHANGED file
        ELSE /\ file' = writeStatus(completed)
             /\ out' = [ Output("complete", taskId, TRUE, "") EXCEPT
                           !.summary = completed.summary,
                           !.ready = getReadyTaskIds(plan, completed),
                           !.owner = owner, !.result = result,
                           !.blockers = blockersArg, !.report = report,
                           !.direct = StartedBy(out, taskId) ]
     /\ UNCHANGED <<plan, conc>>

Next ==
  \/ commandInit
  \/ commandReady
  \/ commandStatus
  \/ \E taskId \in TaskArgs \cup {""} : commandPrompt(taskId)
  \/ \E taskId \in TaskArgs, owner \in StartOwners : commandStart(taskId, owner)
  \/ \E taskId \in TaskArgs \cup {""}, owner \in StartOwners :
       commandDispatch(taskId, owner)
  \/ \E taskId \in TaskArgs, a \in CompleteArgs :
       commandComplete(taskId, a.result, a.report, a.blockers, a.owner)

Spec == Init /\ [][Next]_vars

----------------------------------------------------------------------------
(* A command as one function of the loaded status, and its serial effect   *)

\* what a command does between loadStatus and writeStatus: the fail() taken
\* ("" if none), the target it resolved and the status it hands to writeStatus
transition(p, status, inv) ==
  IF inv.cmd = "start"
  THEN LET err == markTaskStartedError(p, status, inv.task)
       IN [ err |-> err, task |-> inv.task,
            status |-> IF err = "" THEN markTaskStarted(p, status, inv.task, inv.owner)
                       ELSE status ]
  ELSE IF inv.cmd = "dispatch"
  THEN LET resolved == resolveTaskForPrompt(p, status, inv.task)
           err == IF resolved.err # "" THEN resolved.err
                  ELSE IF buildDelegationPayloadError(p, status, resolved.task) # ""
                       THEN buildDelegationPayloadError(p, status, resolved.task)
                  ELSE markTaskStartedError(p, status, resolved.task)
       IN [ err |-> err, task |-> resolved.task,
            status |-> IF err = "" THEN markTaskStarted(p, status, resolved.task, inv.owner)
                       ELSE status ]
  ELSE IF inv.cmd = "complete"
  THEN LET err == IF inv.result \notin VALID_RESULTS THEN "bad_result"
                  ELSE completeError(p, status, inv.task)
       IN [ err |-> err, task |-> inv.task,
            status |-> IF err = ""
                       THEN resummarize(p,
                              [ status.tasks EXCEPT ![inv.task] =
                                  completedRecord(status.tasks[inv.task], inv.result,
                                                  inv.report, toStringArray(inv.blockers),
                                                  inv.owner) ])
                       ELSE status ]
  ELSE IF inv.cmd = "prompt"
  THEN LET resolved == resolveTaskForPrompt(p, status, inv.task)
           err == IF resolved.err # "" THEN resolved.err
                  ELSE buildDelegationPayloadError(p, status, resolved.task)
       IN [ err |-> err, task |-> resolved.task, status |-> status ]
  ELSE [ err |-> "", task |-> "", status |-> status ]

\* the command reaches its writeStatus: prompt calls it before it can fail,
\* the others after their last fail()
Persists(inv, err) == err = "" \/ inv.cmd = "prompt"

\* the file one taskctl.mjs command leaves behind when it runs alone
runFile(p, f, inv) ==
  LET r == transition(p, loadStatus(f, p, inv.cmd = "init", TRUE), inv)
  IN IF Persists(inv, r.err) THEN writeStatus(r.status) ELSE f

RECURSIVE runAllFile(_, _, _)
runAllFile(p, f, invs) ==
  IF invs = <<>> THEN f
  ELSE runAllFile(p, runFile(p, f, Head(invs)), Tail(invs))

----------------------------------------------------------------------------
(* The SQLite store of src/index.ts                                        *)

\* variant: TASK_ARRAY_KINDS without "tests_run"
upsertTaskRecordNoTests(record) ==
  LET safeRecord == normalizeTaskStatusRecord(record)
  IN [ safeRecord EXCEPT
         !.blockers = filterBoolean(safeRecord.blockers),
         !.files_changed = filterBoolean(safeRecord.files_changed),
         !.tests_run = <<>>,
         !.next_unblocked_tasks = filterBoolean(safeRecord.next_unblocked_tasks) ]

\* upsertTaskRecord: the row and the task_arrays rows written for a record
upsertTaskRecord(record) ==
  LET safeRecord == normalizeTaskStatusRecord(record)
  IN [ safeRecord EXCEPT
         !.blockers = filterBoolean(safeRecord.blockers),
         !.files_changed = filterBoolean(safeRecord.files_changed),
         !.tests_run = filterBoolean(safeRecord.tests_run),
         !.next_unblocked_tasks = filterBoolean(safeRecord.next_unblocked_tasks) ]

readTaskRecordFromDb(d, taskId) ==
  IF taskId \notin DOMAIN d THEN defaultTaskStatus
  ELSE normalizeTaskStatusRecord(
         [ d[taskId] EXCEPT
             !.blockers = filterBoolean(d[taskId].blockers),
             !.files_changed = filterBoolean(d[taskId].files_changed),
             !.tests_run = filterBoolean(d[taskId].tests_run),
             !.next_unblocked_tasks = filterBoolean(d[taskId].next_unblocked_tasks) ])

\* variant: a new task.db never reads task.status.json
bootstrapDbForPlanNoImport(d, f, p) ==
  [ t \in DOMAIN d \cup PlanIds(p) |->
      IF t \in DOMAIN d THEN d[t] ELSE defaultTaskStatus ]

\* bootstrapDbForPlan: import task.status.json into an empty tasks table,
\* then insert a default row for every plan task that has none
bootstrapDbForPlan(d, f, p) ==
  LET imported ==
        IF DOMAIN d = {} /\ f.exists
        THEN [ t \in PlanIds(p) |->
                 upsertTaskRecord(IF t \in DOMAIN f.tasks
                                  THEN normalizeTaskStatusRecord(f.tasks[t])
                                  ELSE defaultTaskStatus) ]
        ELSE d
  IN [ t \in DOMAIN imported \cup PlanIds(p) |->
         IF t \in DOMAIN imported THEN imported[t] ELSE defaultTaskStatus ]

\* loadStatus of src/index.ts, inside its transaction
loadStatusDb(d, f, p, resetInProgress, reevaluateBlocked) ==
  LET boot == bootstrapDbForPlan(d, f, p)
      tasks0 == [ t \in PlanIds(p) |->
                    LET record == readTaskRecordFromDb(boot, t)
                    IN IF resetInProgress /\ record.state = "in_progress"
                       THEN [ record EXCEPT !.state = "todo", !.owner = "" ]
                       ELSE record ]
      tasks == IF reevaluateBlocked THEN ReevaluateBlocked(tasks0, p, 1) ELSE tasks0
  IN [ summary |-> summarizeTasks(tasks, p.taskOrder), tasks |-> tasks ]

\* writeStatus of src/index.ts up to COMMIT: every plan task upserted
writeStatusDb(d, status, p) ==
  [ t \in DOMAIN d \cup PlanIds(p) |->
      IF t \in PlanIds(p) THEN upsertTaskRecord(status.tasks[t]) ELSE d[t] ]

\* writeStatus of src/index.ts after COMMIT: the snapshot written to
\* task.status.json
exportSnapshot(status, p) ==
  [ exists |-> TRUE, summary |-> status.summary,
    tasks |-> [ t \in PlanIds(p) |-> status.tasks[t] ] ]

\* task.db and task.status.json as one src/index.ts command leaves them when
\* it runs alone
runDb(p, store, inv) ==
  LET r == transition(p, loadStatusDb(store.db, store.file, p, inv.cmd = "init", TRUE), inv)
  IN IF Persists(inv, r.err)
     THEN [ db |-> writeStatusDb(store.db, r.status, p),
            file |-> exportSnapshot(r.status, p) ]
     ELSE store

RECURSIVE runAllDb(_, _, _)
runAllDb(p, store, invs) ==
  IF invs = <<>> THEN store
  ELSE runAllDb(p, runDb(p, store, Head(invs)), Tail(invs))

----------------------------------------------------------------------------
(* Concurrent processes                                                    *)

\* the longest command history behind the store two processes start from
MaxSetup == 2

ProcOwner == [ pr \in Procs |-> IF pr = "p1" THEN "o1" ELSE "o2" ]

DoneArgs == [ result |-> "done", report |-> Report2, blockers |-> <<>> ]
BlockedArgs == [ result |-> "blocked", report |-> Report1, blockers |-> <<"", "T1">> ]

\* the command lines a process may be launched with
ConcurrentCommands(owner) ==
  { Invocation("init", "", "", NoArgs),
    Invocation("ready", "", "", NoArgs),
    Invocation("start", "T1", owner, NoArgs),
    Invocation("dispatch", "", owner, NoArgs),
    Invocation("complete", "T1", "", DoneArgs),
    Invocation("complete", "T2", "", DoneArgs),
    Invocation("complete", "T2", "", BlockedArgs) }

\* the command histories that produced the store the processes find
SetupSeqs == UNION { [ 1..n -> ConcurrentCommands("o1") ] : n \in 0..MaxSetup }

Launched(pr, inv) ==
  [ pc |-> "ready", inv |-> inv, task |-> "", status |-> NoStatus ]

Exited(pr, pc, task) == [ proc EXCEPT ![pr].pc = pc, ![pr].task = task,
                                       ![pr].status = NoStatus ]

(* taskctl.mjs: nothing is held between loadStatus and writeStatus *)

InitFileConcurrent ==
  /\ plan \in loadPlan
  /\ \E setup \in SetupSeqs : file = runAllFile(plan, EmptyFile, setup)
  /\ out = Output("none", "", TRUE, "")
  /\ db = EmptyDb
  /\ dbLock = NoProc
  /\ \E i1 \in ConcurrentCommands(ProcOwner["p1"]), i2 \in ConcurrentCommands(ProcOwner["p2"]) :
       proc = [ pr \in Procs |-> Launched(pr, IF pr = "p1" THEN i1 ELSE i2) ]
  /\ hist = [ file0 |-> file, db0 |-> EmptyDb ]
  /\ dbFile = EmptyFile

\* task.status.json between the open (O_TRUNC) of fs.writeFileSync and the
\* end of its write: it exists and holds no complete JSON document
TruncatedFile ==
  [ exists |-> TRUE, summary |-> NoSummary,
    tasks |-> [ t \in {} |-> defaultTaskStatus ] ]

\* loadStatus reads the file: JSON.parse throws on an incomplete document and
\* the command takes fail("Failed to parse task.status.json"); otherwise the
\* command runs on what it read and either takes a fail() or holds the
\* status it will write
FileLoad(pr) ==
  /\ proc[pr].pc = "ready"
  /\ IF file = TruncatedFile
     THEN proc' = Exited(pr, "parse_failed", "")
     ELSE LET r == transition(plan,
                              loadStatus(file, plan, proc[pr].inv.cmd = "init", TRUE),
                              proc[pr].inv)
          IN proc' = IF r.err # ""
                     THEN Exited(pr, "failed", r.task)
                     ELSE [ proc EXCEPT ![pr].pc = "loaded", ![pr].task = r.task,
                                        ![pr].status = r.status ]
  /\ UNCHANGED <<plan, file, out, db, dbLock, hist, dbFile>>

\* writeStatus, first half: fs.writeFileSync opens the file, truncating it
FileOpen(pr) ==
  /\ proc[pr].pc = "loaded"
  /\ file' = TruncatedFile
  /\ proc' = [ proc EXCEPT ![pr].pc = "writing" ]
  /\ UNCHANGED <<plan, out, db, dbLock, hist, dbFile>>

\* writeStatus, second half: the status this process holds is the file's
\* content
FileWrite(pr) ==
  /\ proc[pr].pc = "writing"
  /\ file' = writeStatus(proc[pr].status)
  /\ proc' = Exited(pr, "done", proc[pr].task)
  /\ UNCHANGED <<plan, out, db, dbLock, hist, dbFile>>

NextFileConcurrent ==
  \/ \E pr \in Procs : FileLoad(pr)
  \/ \E pr \in Procs : FileOpen(pr)
  \/ \E pr \in Procs : FileWrite(pr)

SpecFileConcurrent == InitFileConcurrent /\ [][NextFileConcurrent]_vars

(* src/index.ts: BEGIN IMMEDIATE in loadStatus, COMMIT in writeStatus *)

\* variant: a plain BEGIN, which takes no write lock when it is issued
beginDeferred(lock) == TRUE

\* BEGIN IMMEDIATE returns once no other connection holds the write lock
beginImmediate(lock) == lock = NoProc

FreshStore == [ db |-> EmptyDb, file |-> EmptyFile ]

\* the stores two processes may find: what src/index.ts commands left, or a
\* task.status.json of the file-backed CLI with no task.db yet
InitialStores(p) ==
  { runAllDb(p, FreshStore, setup) : setup \in SetupSeqs }
    \cup { [ db |-> EmptyDb, file |-> runAllFile(p, EmptyFile, setup) ] : setup \in SetupSeqs }

InitDbConcurrent ==
  /\ plan \in loadPlan
  /\ \E store \in InitialStores(plan) :
       /\ db = store.db
       /\ file = store.file
  /\ out = Output("none", "", TRUE, "")
  /\ dbLock = NoProc
  /\ \E i1 \in ConcurrentCommands(ProcOwner["p1"]), i2 \in ConcurrentCommands(ProcOwner["p2"]) :
       proc = [ pr \in Procs |-> Launched(pr, IF pr = "p1" THEN i1 ELSE i2) ]
  /\ hist = [ file0 |-> file, db0 |-> db ]
  /\ dbFile = EmptyFile

\* loadStatus: BEGIN IMMEDIATE, bootstrap and read inside the transaction,
\* then the command runs on what it read
DbBegin(pr) ==
  /\ proc[pr].pc = "ready"
  /\ beginImmediate(dbLock)
  /\ dbLock' = pr
  /\ LET r == transition(plan,
                         loadStatusDb(db, file, plan, proc[pr].inv.cmd = "init", TRUE),
                         proc[pr].inv)
     IN proc' = IF r.err # ""
                THEN [ proc EXCEPT ![pr].pc = "failing", ![pr].task = r.task ]
                ELSE [ proc EXCEPT ![pr].pc = "loaded", ![pr].task = r.task,
                                   ![pr].status = r.status ]
  /\ UNCHANGED <<plan, file, out, db, hist, dbFile>>

\* busy_timeout runs out while another process holds the write lock: the
\* command ends with SQLITE_BUSY and has written nothing
DbBusy(pr) ==
  /\ proc[pr].pc = "ready"
  /\ dbLock \notin { NoProc, pr }
  /\ proc' = Exited(pr, "busy", "")
  /\ UNCHANGED <<plan, file, out, db, dbLock, hist, dbFile>>

\* fail() inside the transaction: process.exit(1) without COMMIT
DbRollback(pr) ==
  /\ proc[pr].pc = "failing"
  /\ dbLock' = IF dbLock = pr THEN NoProc ELSE dbLock
  /\ proc' = Exited(pr, "failed", proc[pr].task)
  /\ UNCHANGED <<plan, file, out, db, hist, dbFile>>

\* writeStatus up to COMMIT
DbCommit(pr) ==
  /\ proc[pr].pc = "loaded"
  /\ db' = writeStatusDb(db, proc[pr].status, plan)
  /\ dbLock' = IF dbLock = pr THEN NoProc ELSE dbLock
  /\ proc' = [ proc EXCEPT ![pr].pc = "committed" ]
  /\ UNCHANGED <<plan, file, out, hist, dbFile>>

\* writeStatus after COMMIT: task.status.json is rewritten
DbExport(pr) ==
  /\ proc[pr].pc = "committed"
  /\ file' = exportSnapshot(proc[pr].status, plan)
  /\ proc' = Exited(pr, "done", proc[pr].task)
  /\ UNCHANGED <<plan, out, db, dbLock, hist, dbFile>>

NextDbConcurrent ==
  \/ \E pr \in Procs : DbBegin(pr)
  \/ \E pr \in Procs : DbBusy(pr)
  \/ \E pr \in Procs : DbRollback(pr)
  \/ \E pr \in Procs : DbCommit(pr)
  \/ \E pr \in Procs : DbExport(pr)

SpecDbConcurrent == InitDbConcurrent /\ [][NextDbConcurrent]_vars

----------------------------------------------------------------------------
(* The two CLIs side by side: taskctl.mjs on file, src/index.ts on db and  *)
(* dbFile, given the same command lines                                    *)

\* what a command prints and how it exits: the fail() taken, the target it
\* resolved, and when it succeeds the summary and the ready list it reports
Printed(p, r, inv) ==
  [ ok |-> r.err = "", err |-> r.err, task |-> r.task,
    summary |-> IF r.err = "" /\ inv.cmd # "prompt" THEN r.status.summary ELSE NoSummary,
    ready |-> IF r.err = "" /\ inv.cmd \in { "ready", "status", "complete" }
              THEN getReadyTaskIds(p, r.status) ELSE <<>>,
    deps |-> IF r.err = "" /\ inv.cmd \in { "prompt", "dispatch" }
             THEN dependencyResults(p, r.status, r.task) ELSE <<>> ]

NothingPrinted ==
  [ ok |-> TRUE, err |-> "", task |-> "", summary |-> NoSummary, ready |-> <<>>,
    deps |-> <<>> ]

\* the command lines given to both CLIs
BackendCommands ==
  { Invocation(c, "", "", NoArgs) : c \in { "init", "ready", "status" } }
    \cup { Invocation("prompt", t, "", NoArgs) : t \in { "", "T2", UnknownTask } }
    \cup { Invocation("start", t, o, NoArgs) : t \in TaskArgs, o \in StartOwners }
    \cup { Invocation("dispatch", t, o, NoArgs) : t \in { "", "T2" }, o \in StartOwners }
    \cup { Invocation("complete", t, a.owner, a) :
             t \in { "T1", "T2" }, a \in { c \in CompleteArgs : c.report = Report2 } }
    \cup { Invocation("complete", t, "", [ DoneArgs EXCEPT !.result = r ]) :
             t \in { "T2", UnknownTask }, r \in { "failed", "bogus" } }

InitBackends ==
  /\ plan \in loadPlan
  /\ file = EmptyFile
  /\ db = EmptyDb
  /\ dbFile = EmptyFile
  /\ out = [ cmd |-> "none", imported |-> FALSE, file |-> NothingPrinted,
             db |-> NothingPrinted ]
  /\ dbLock = NoProc
  /\ proc = [ pr \in Procs |-> IdleProc ]
  /\ hist = [ file0 |-> EmptyFile, db0 |-> EmptyDb ]

\* one command line run by taskctl.mjs in its directory and by src/index.ts
\* in its own
runBoth(inv) ==
  \E f \in { transition(plan, loadStatus(file, plan, inv.cmd = "init", TRUE), inv) },
     d \in { transition(plan, loadStatusDb(db, dbFile, plan, inv.cmd = "init", TRUE), inv) } :
     /\ \A t \in PlanIds(plan) : f.status.tasks[t].attempts < MaxAttempts
     /\ file' = IF Persists(inv, f.err) THEN writeStatus(f.status) ELSE file
     /\ db' = IF Persists(inv, d.err) THEN writeStatusDb(db, d.status, plan) ELSE db
     /\ dbFile' = IF Persists(inv, d.err) THEN exportSnapshot(d.status, plan) ELSE dbFile
     /\ out' = [ cmd |-> inv.cmd, imported |-> out.cmd = "reimport",
                 file |-> Printed(plan, f, inv), db |-> Printed(plan, d, inv) ]
     /\ UNCHANGED <<plan, dbLock, proc, hist>>

\* the exported task.status.json is taken to a fresh store: a new task.db
\* with no task rows next to it, which the next command bootstraps from it
reimport ==
  /\ dbFile.exists
  /\ out.cmd # "reimport"
  /\ db' = EmptyDb
  /\ out' = [ cmd |-> "reimport", imported |-> FALSE, file |-> NothingPrinted,
              db |-> NothingPrinted ]
  /\ UNCHANGED <<plan, file, dbFile, dbLock, proc, hist>>

NextBackends ==
  \/ \E inv \in BackendCommands : runBoth(inv)
  \/ reimport

SpecBackends == InitBackends /\ [][NextBackends]_vars

----------------------------------------------------------------------------
(* Graph validation (generate-task-graph.mjs): detectDependencyCycles run   *)
(* on every small task list                                                *)

\* the longest blocked_by list offered
MaxDeps == 2

\* the task IDs of the graphs offered, and an ID no task has
CycleTasks == { "A", "B", "C" }
MissingTask == "X"
NodeIds == CycleTasks \cup { MissingTask }

\* the blocked_by lists offered: no ID twice, at most MaxDeps IDs
DepLists ==
  { l \in UNION { [ 1..n -> NodeIds ] : n \in 0..MaxDeps } :
      \A i, j \in 1..Len(l) : l[i] = l[j] => i = j }

\* the parsed task lists offered, in two declaration orders
TaskLists ==
  [ taskOrder : { <<"A", "B", "C">>, <<"C", "B", "A">> },
    blocked_by : [ CycleTasks -> DepLists ] ]

\* stack.indexOf(taskId)
indexOf(stack, taskId) ==
  CHOOSE i \in 1..Len(stack) :
    stack[i] = taskId /\ \A j \in 1..(i - 1) : stack[j] # taskId

\* depsByTask.get(taskId) ?? []
depsOf(depsByTask, taskId) ==
  IF taskId \in DOMAIN depsByTask THEN depsByTask[taskId] ELSE <<>>

\* the state map and the errors before any task is visited
NoVisits == [ state |-> [ n \in NodeIds |-> 0 ], errors |-> <<>> ]

RECURSIVE dfs(_, _, _, _)
RECURSIVE dfsDeps(_, _, _, _, _)

\* dfs: s.state and s.errors after the call; stack is the stack at the call
dfs(depsByTask, taskId, stack, s) ==
  IF s.state[taskId] = 1
  THEN LET cycleStart == indexOf(stack, taskId)
           cyclePath == SubSeq(stack, cycleStart, Len(stack)) \o <<taskId>>
       IN [ s EXCEPT !.errors = Append(@, cyclePath) ]
  ELSE IF s.state[taskId] = 2 THEN s
  ELSE LET entered == [ s EXCEPT !.state[taskId] = 1 ]
           after == dfsDeps(depsByTask, depsOf(depsByTask, taskId), 1,
                            Append(stack, taskId), entered)
       IN [ after EXCEPT !.state[taskId] = 2 ]

\* for (const dependency of deps) dfs(dependency, stack), from the i-th on
dfsDeps(depsByTask, deps, i, stack, s) ==
  IF i > Len(deps) THEN s
  ELSE dfsDeps(depsByTask, deps, i + 1, stack, dfs(depsByTask, deps[i], stack, s))

RECURSIVE dfsRoots(_, _, _, _)
\* for (const task of tasks) if state is 0, dfs(task.id, []), from the i-th on
dfsRoots(depsByTask, taskOrder, i, s) ==
  IF i > Len(taskOrder) THEN s
  ELSE dfsRoots(depsByTask, taskOrder, i + 1,
                IF s.state[taskOrder[i]] = 0
                THEN dfs(depsByTask, taskOrder[i], <<>>, s)
                ELSE s)

\* variant: the scan starts from the first task only
detectDependencyCyclesFirstRoot(tasks) ==
  dfs(tasks.blocked_by, tasks.taskOrder[1], <<>>, NoVisits).errors

\* detectDependencyCycles: the cycle paths of the errors, in the order pushed
detectDependencyCycles(tasks) ==
  dfsRoots(tasks.blocked_by, tasks.taskOrder, 1, NoVisits).errors

NotValidated == [ cmd |-> "none", errors |-> <<>> ]

InitCycles ==
  /\ plan \in TaskLists
  /\ out = NotValidated
  /\ file = EmptyFile
  /\ db = EmptyDb
  /\ dbFile = EmptyFile
  /\ dbLock = NoProc
  /\ proc = [ pr \in Procs |-> IdleProc ]
  /\ hist = [ file0 |-> EmptyFile, db0 |-> EmptyDb ]

\* validateGraphParity: cycleErrors = detectDependencyCycles(parsed.tasks)
validateGraphParity ==
  /\ out.cmd = "none"
  /\ out' = [ cmd |-> "validate", errors |-> detectDependencyCycles(plan) ]
  /\ UNCHANGED <<plan, file, conc>>

NextCycles == validateGraphParity

SpecCycles == InitCycles /\ [][NextCycles]_vars

----------------------------------------------------------------------------
(* Graph generation (generate-task-graph): tasks.yaml parsed, validated    *)
(* and turned into task.graph.json                                         *)

PRIORITIES == { "low", "medium", "high", "critical" }

\* the raw blocked_by / tasks lists offered: any IDs, possibly repeated
RawIdLists == UNION { [ 1..n -> { "A", "B", "X" } ] : n \in 0..MaxDeps }

\* the tasks.yaml documents offered: two tasks, one critical path, one
\* parallel window; the fields not listed are present and valid
TasksYamlDocs ==
  [ tasks : { <<a, b>> :
                a \in [ id : { "A" }, priority : { "high", "urgent", "" },
                        blocked_by : RawIdLists ],
                b \in [ id : { "A", "B" }, priority : { "high", "urgent" },
                        blocked_by : RawIdLists ] },
    critical_paths : { << [ id |-> "cp1", tasks |-> l ] >> :
                         l \in { <<>>, <<"A">>, <<"B", "X">> } },
    parallel_windows : { << [ id |-> "pw1", tasks |-> l ] >> :
                           l \in { <<"A">>, <<"X">> } } ]

\* one entry of an error list: the label in brackets, the kind of message
\* and the ID the message names
ErrorEntry(where, what, ref) == [ where |-> where, what |-> what, ref |-> ref ]

RECURSIVE Concat(_)
\* the lists of a list, joined
Concat(lists) == IF lists = <<>> THEN <<>> ELSE Head(lists) \o Concat(Tail(lists))

RECURSIVE dedupe(_, _)
\* parseIdentifierList: the IDs of value not seen before, in order
dedupe(value, seen) ==
  IF value = <<>> THEN <<>>
  ELSE IF Head(value) \in seen THEN dedupe(Tail(value), seen)
  ELSE <<Head(value)>> \o dedupe(Tail(value), seen \cup { Head(value) })

parseIdentifierList(value) == dedupe(value, {})

\* parseRequiredString(task.priority) and the PRIORITIES test
priorityErrors(task) ==
  IF task.priority = "" THEN << ErrorEntry(task.id, "required", "priority") >>
  ELSE IF task.priority \notin PRIORITIES
  THEN << ErrorEntry(task.id, "enum", "priority") >>
  ELSE <<>>

\* assertUniqueIds: one error naming the IDs seen twice
assertUniqueIds(items, label) ==
  LET duplicates == { items[i].id : i \in { k \in 1..Len(items) :
                                             \E j \in 1..(k - 1) : items[j].id = items[k].id } }
  IN IF duplicates # {}
     THEN << ErrorEntry(label, "duplicate", CHOOSE d \in duplicates : TRUE) >>
     ELSE <<>>

\* parseTasksYaml up to the test on errors.length
parseTasksYaml(document) ==
  LET tasks == [ i \in 1..Len(document.tasks) |->
                   [ id |-> document.tasks[i].id,
                     priority |-> document.tasks[i].priority,
                     blocked_by |-> parseIdentifierList(document.tasks[i].blocked_by) ] ]
      group(raw) == [ i \in 1..Len(raw) |->
                        [ id |-> raw[i].id, tasks |-> parseIdentifierList(raw[i].tasks) ] ]
      criticalPaths == group(document.critical_paths)
      parallelWindows == group(document.parallel_windows)
  IN [ errors |-> Concat([ i \in 1..Len(tasks) |-> priorityErrors(tasks[i]) ])
                    \o assertUniqueIds(tasks, "tasks")
                    \o assertUniqueIds(criticalPaths, "critical_paths")
                    \o assertUniqueIds(parallelWindows, "parallel_windows"),
       tasks |-> tasks,
       criticalPaths |-> criticalPaths,
       parallelWindows |-> parallelWindows ]

\* the task IDs validateGraphParity tests references against
taskIdsOf(parsed) == { parsed.tasks[i].id : i \in 1..Len(parsed.tasks) }

\* validateGraphParity: the loop over each task's blocked_by
dependencyErrors(parsed) ==
  LET taskErrors(task) ==
        Concat([ k \in 1..Len(task.blocked_by) |->
                   IF task.blocked_by[k] = task.id
                   THEN << ErrorEntry(task.id, "self", task.blocked_by[k]) >>
                   ELSE IF task.blocked_by[k] \notin taskIdsOf(parsed)
                   THEN << ErrorEntry(task.id, "missing", task.blocked_by[k]) >>
                   ELSE <<>> ])
  IN Concat([ i \in 1..Len(parsed.tasks) |-> taskErrors(parsed.tasks[i]) ])

\* validateGraphParity: the loops over critical_paths and parallel_windows
groupErrors(groups, label, parsed) ==
  Concat([ i \in 1..Len(groups) |->
             Concat([ k \in 1..Len(groups[i].tasks) |->
                        IF groups[i].tasks[k] \notin taskIdsOf(parsed)
                        THEN << ErrorEntry(label, "missing", groups[i].tasks[k]) >>
                        ELSE <<>> ]) ])

\* errors.push(...detectDependencyCycles(parsed.tasks)): one error per path,
\* named here by the path's first ID; the task IDs are distinct when this runs
cycleErrors(parsed) ==
  LET ids == [ i \in 1..Len(parsed.tasks) |-> parsed.tasks[i].id ]
      paths == detectDependencyCycles(
                 [ taskOrder |-> ids,
                   blocked_by |-> [ t \in Range(ids) |->
                     parsed.tasks[CHOOSE i \in 1..Len(ids) : ids[i] = t].blocked_by ] ])
  IN [ k \in 1..Len(paths) |-> ErrorEntry("graph", "cycle", paths[k][1]) ]

\* variant: parallel_windows are not tested
graphParityErrorsNoWindows(parsed) ==
  dependencyErrors(parsed)
    \o groupErrors(parsed.criticalPaths, "critical_paths", parsed)
    \o cycleErrors(parsed)

\* validateGraphParity: the errors collected before it tests errors.length
graphParityErrors(parsed) ==
  dependencyErrors(parsed)
    \o groupErrors(parsed.criticalPaths, "critical_paths", parsed)
    \o groupErrors(parsed.parallelWindows, "parallel_windows", parsed)
    \o cycleErrors(parsed)

NoGraph == [ nodes |-> <<>>, critical_paths |-> <<>>, parallel_windows |-> <<>> ]

\* buildGraph after validateGraphParity has passed: the nodes, and the groups
\* as parsed
buildGraph(parsed) ==
  [ nodes |-> [ i \in 1..Len(parsed.tasks) |->
                  [ id |-> parsed.tasks[i].id, priority |-> parsed.tasks[i].priority,
                    blocked_by |-> parsed.tasks[i].blocked_by ] ],
    critical_paths |-> parsed.criticalPaths,
    parallel_windows |-> parsed.parallelWindows ]

NotGenerated == [ cmd |-> "none", ok |-> FALSE, errors |-> <<>>, graph |-> NoGraph ]

InitGenerator ==
  /\ plan \in TasksYamlDocs
  /\ out = NotGenerated
  /\ file = EmptyFile
  /\ db = EmptyDb
  /\ dbFile = EmptyFile
  /\ dbLock = NoProc
  /\ proc = [ pr \in Procs |-> IdleProc ]
  /\ hist = [ file0 |-> EmptyFile, db0 |-> EmptyDb ]

\* main: parseTasksYaml, buildGraph, and either the graph written or the
\* message of the first fail() printed
generate ==
  /\ out.cmd = "none"
  /\ \E parsed \in { parseTasksYaml(plan) } :
       out' = IF parsed.errors # <<>>
              THEN [ cmd |-> "generate", ok |-> FALSE, errors |-> parsed.errors,
                     graph |-> NoGraph ]
              ELSE IF graphParityErrors(parsed) # <<>>
              THEN [ cmd |-> "generate", ok |-> FALSE,
                     errors |-> graphParityErrors(parsed), graph |-> NoGraph ]
              ELSE [ cmd |-> "generate", ok |-> TRUE, errors |-> <<>>,
                     graph |-> buildGraph(parsed) ]
  /\ UNCHANGED <<plan, file, conc>>

NextGenerator == generate

SpecGenerator == InitGenerator /\ [][NextGenerator]_vars

----------------------------------------------------------------------------
(* Plan loading (taskctl): loadPlan run on every small plan document       *)

\* the plan documents offered to loadPlan: two tasks, each blocked_by list
\* any distinct IDs out of the two tasks and an ID no task has
AnyPlanDocs ==
  [ taskOrder : { <<"T1", "T2">> },
    blocked_by : [ { "T1", "T2" } ->
                     { l \in UNION { [ 1..n -> { "T1", "T2", "T9" } ] : n \in 0..MaxDeps } :
                         \A i, j \in 1..Len(l) : l[i] = l[j] => i = j } ] ]

NotLoaded == [ cmd |-> "none", ok |-> FALSE ]

InitPlans ==
  /\ plan \in AnyPlanDocs
  /\ out = NotLoaded
  /\ file = EmptyFile
  /\ db = EmptyDb
  /\ dbFile = EmptyFile
  /\ dbLock = NoProc
  /\ proc = [ pr \in Procs |-> IdleProc ]
  /\ hist = [ file0 |-> EmptyFile, db0 |-> EmptyDb ]

\* loadPlan: the plan is returned unless validateDependencies fails
acceptPlan ==
  /\ out.cmd = "none"
  /\ out' = [ cmd |-> "loadPlan", ok |-> validateDependencies(plan) ]
  /\ UNCHANGED <<plan, file, conc>>

NextPlans == acceptPlan

SpecPlans == InitPlans /\ [][NextPlans]_vars

----------------------------------------------------------------------------
(* Spec excerpt (taskctl): resolveSpecExcerpt run on SPEC.md documents of   *)
(* about 200 lines                                                         *)

\* lineCount <= 200 in resolveSpecExcerpt
FullSpecLines == 200

\* the number of headed sections in the documents offered
MaxSections == 3

\* a line of SPEC.md: a heading (level 1..6, its text) or any other line
\* (level 0); sec tells which section of the document the line was written
\* for, and is not part of the text
Line(level, text, sec) == [ level |-> level, text |-> text, sec |-> sec ]
BlankLine == Line(0, "", 0)

HeadingTexts == { "Login Flow", "Payment Flow", "Login: Flow" }

\* headingSlug on the heading texts and on the anchors offered: lower case,
\* punctuation removed, white space to "-"
headingSlug(text) ==
  CASE text \in { "Login Flow", "Login: Flow", "login-flow" } -> "login-flow"
    [] text \in { "Payment Flow", "Payment-Flow" } -> "payment-flow"
    [] text = "missing" -> "missing"
    [] OTHER -> ""

\* the context lists offered
Contexts ==
  { <<>>,
    << "SPEC.md#login-flow" >>,
    << "SPEC.md#Payment_Flow", "README.md" >>,
    << "SPEC.md#login-flow", "SPEC.md#Payment_Flow" >>,
    << "SPEC.md#missing", "SPEC.md" >> }

\* extractSpecAnchors: matches[1].replace(/_/g, "-") of an entry that matches
\* /\bSPEC\.md#([A-Za-z0-9._-]+)/i, "" for one that does not
anchorOf(entry) ==
  CASE entry = "SPEC.md#login-flow" -> "login-flow"
    [] entry = "SPEC.md#Payment_Flow" -> "Payment-Flow"
    [] entry = "SPEC.md#missing" -> "missing"
    [] OTHER -> ""

extractSpecAnchors(context) ==
  { headingSlug(anchorOf(context[i])) : i \in 1..Len(context) } \ { "" }

\* the SPEC.md files offered: total lines of text, the last of them ended by
\* a line terminator or not; a preamble, then the sections (heading, a line,
\* a blank line), then a closing line
SpecDocs ==
  [ total : { FullSpecLines - 1, FullSpecLines, FullSpecLines + 1, FullSpecLines + 50 },
    terminated : BOOLEAN,
    levels : [ 1..MaxSections -> { 2, 3 } ],
    titles : [ 1..MaxSections -> HeadingTexts ],
    context : Contexts ]

\* the lines of text of the file
TextOf(doc) ==
  [ i \in 1..(doc.total - 3 * MaxSections - 1) |-> Line(0, "preamble", 0) ]
    \o Concat([ k \in 1..MaxSections |->
                  << Line(doc.levels[k], doc.titles[k], k), Line(0, "body", k), BlankLine >> ])
    \o << Line(0, "closing", MaxSections) >>

\* content.split(/\r?\n/): a terminator after the last line yields one more,
\* empty, item
splitLines(doc) == TextOf(doc) \o (IF doc.terminated THEN << BlankLine >> ELSE <<>>)

RECURSIVE trimEnd(_)
\* trimEnd on lines joined by "\n": the trailing blank lines dropped
trimEnd(lines) ==
  IF lines # <<>> /\ lines[Len(lines)].text = ""
  THEN trimEnd(SubSeq(lines, 1, Len(lines) - 1))
  ELSE lines

\* sections.join("\n\n")
joinSections(sections) ==
  Concat([ i \in 1..Len(sections) |->
             IF i = 1 THEN sections[i] ELSE << BlankLine >> \o sections[i] ])

\* variant: a section ends at the next heading whatever its level
extractMarkdownSectionsAnyLevel(lines, targetAnchors) ==
  LET headings == SelectSeq([ i \in 1..Len(lines) |-> [ line |-> i, level |-> lines[i].level,
                                                        slug |-> headingSlug(lines[i].text) ] ],
                            LAMBDA h : h.level > 0)
      endLine(i) == IF i < Len(headings) THEN headings[i + 1].line ELSE Len(lines) + 1
      wanted == SelectSeq([ i \in 1..Len(headings) |-> i ],
                          LAMBDA i : headings[i].slug \in targetAnchors)
  IN [ k \in 1..Len(wanted) |->
         trimEnd(SubSeq(lines, headings[wanted[k]].line, endLine(wanted[k]) - 1)) ]

\* extractMarkdownSections: for each heading whose slug is wanted, the lines
\* from it up to the next heading of the same or a lower level, trimmed
extractMarkdownSections(lines, targetAnchors) ==
  LET headings == SelectSeq([ i \in 1..Len(lines) |-> [ line |-> i, level |-> lines[i].level,
                                                        slug |-> headingSlug(lines[i].text) ] ],
                            LAMBDA h : h.level > 0)
      closers(i) == { j \in (i + 1)..Len(headings) : headings[j].level <= headings[i].level }
      endLine(i) == IF closers(i) = {} THEN Len(lines) + 1
                    ELSE headings[CHOOSE j \in closers(i) : \A k \in closers(i) : j <= k].line
      wanted == SelectSeq([ i \in 1..Len(headings) |-> i ],
                          LAMBDA i : headings[i].slug \in targetAnchors)
  IN [ k \in 1..Len(wanted) |->
         trimEnd(SubSeq(lines, headings[wanted[k]].line, endLine(wanted[k]) - 1)) ]

\* resolveSpecExcerpt on a file that exists
resolveSpecExcerpt(doc) ==
  LET lines == splitLines(doc)
      anchors == extractSpecAnchors(doc.context)
      sections == extractMarkdownSections(lines, anchors)
  IN IF Len(lines) <= FullSpecLines THEN [ excerpt |-> trimEnd(lines), mode |-> "full" ]
     ELSE IF anchors = {} THEN [ excerpt |-> <<>>, mode |-> "no_references" ]
     ELSE IF Len(sections) = 0 THEN [ excerpt |-> <<>>, mode |-> "no_matching_sections" ]
     ELSE [ excerpt |-> trimEnd(joinSections(sections)), mode |-> "sections" ]

NoExcerpt == [ cmd |-> "none", excerpt |-> <<>>, mode |-> "" ]

InitExcerpt ==
  /\ plan \in SpecDocs
  /\ out = NoExcerpt
  /\ file = EmptyFile
  /\ db = EmptyDb
  /\ dbFile = EmptyFile
  /\ dbLock = NoProc
  /\ proc = [ pr \in Procs |-> IdleProc ]
  /\ hist = [ file0 |-> EmptyFile, db0 |-> EmptyDb ]

\* buildDelegationPayload: specInfo = resolveSpecExcerpt(paths.specPath,
\* task.context)
excerpt ==
  /\ out.cmd = "none"
  /\ \E r \in { resolveSpecExcerpt(plan) } :
       out' = [ cmd |-> "excerpt", excerpt |-> r.excerpt, mode |-> r.mode ]
  /\ UNCHANGED <<plan, file, conc>>

NextExcerpt == excerpt

SpecExcerpt == InitExcerpt /\ [][NextExcerpt]_vars

----------------------------------------------------------------------------
(* Vocabulary of the properties                                            *)

\* the dependencies of task t in the current plan
Deps(t) == Range(plan.blocked_by[t])

\* the position of task t in the plan's declaration order
Pos(t) == CHOOSE i \in 1..Len(plan.taskOrder) : plan.taskOrder[i] = t

\* the status a command other than init loads from the file as it is now
Loaded == loadStatus(file, plan, FALSE, TRUE)

\* the tasks of the plan whose record in the file is in state s
InState(s) == { t \in PlanIds(plan) : file.tasks[t].state = s }

\* the tasks that are todo in the file with every dependency done
Dispatchable ==
  { t \in PlanIds(plan) :
      /\ file.tasks[t].state = "todo"
      /\ \A d \in Deps(t) : file.tasks[d].state = "done" }

\* a list as given on the command line, without its empty items
Given(items) == SelectSeq(items, LAMBDA x : x # "")

\* the last command replaced the file (prompt writes before it can fail)
Wrote(o) == o.cmd \in {"init", "ready", "status", "prompt"}
            \/ (o.ok /\ o.cmd \in {"start", "dispatch", "complete"})

----------------------------------------------------------------------------
(* C1: after any sequence of commands, every task in a ready list that a   *)
(* command printed is todo in the persisted status and each of its         *)
(* blocked_by dependencies is done.                                        *)
C1_ReadyOnlyDispatchable ==
  \A i \in 1..Len(out.ready) :
    /\ file.tasks[out.ready[i]].state = "todo"
    /\ \A d \in Deps(out.ready[i]) : file.tasks[d].state = "done"

C1_Witness ==
  /\ out.cmd = "status"
  /\ out.ready = <<"T2">>
  /\ plan.blocked_by["T2"] = <<"T1">>
  /\ file.tasks["T1"].state = "done"

(* C2: start (by the start and the dispatch command) succeeds only on a    *)
(* task whose loaded record is todo with every dependency done, and then   *)
(* the persisted record is in_progress with the given owner, attempts one  *)
(* more than before, started_at set, finished_at null and the result       *)
(* fields empty.                                                           *)
C2_StartContract ==
  [][ (out'.cmd \in {"start", "dispatch"} /\ out'.ok) =>
        LET t == out'.task
            before == Loaded.tasks[t]
            after == file'.tasks[t]
        IN /\ before.state = "todo"
           /\ \A d \in Deps(t) : Loaded.tasks[d].state = "done"
           /\ after.state = "in_progress"
           /\ after.owner = out'.owner
           /\ after.owner \in StartOwners
           /\ after.attempts = before.attempts + 1
           /\ after.started_at # NULL
           /\ after.finished_at = NULL
           /\ after.blockers = <<>>
           /\ after.files_changed = <<>>
           /\ after.tests_run = <<>>
           /\ after.next_unblocked_tasks = <<>>
           /\ after.result_summary = "" ]_vars

C2_Witness ==
  /\ out.cmd = "start"
  /\ out.ok
  /\ plan.blocked_by[out.task] # <<>>
  /\ file.tasks[out.task].state = "in_progress"
  /\ file.tasks[out.task].attempts = 2

(* C3: complete with a valid result fails on a plan task only if its       *)
(* loaded record is neither todo nor in_progress; otherwise the persisted  *)
(* record is done with no blockers for result done, and blocked for result *)
(* blocked or failed with the given blockers, or ["task reported <result>"]*)
(* if none were given; finished_at, result_summary, files_changed,         *)
(* tests_run and next_unblocked_tasks are recorded and started_at is set.  *)
C3_CompleteContract ==
  [][ /\ (out'.cmd = "complete" /\ ~out'.ok /\ out'.task \in PlanIds(plan))
           => Loaded.tasks[out'.task].state \notin {"todo", "in_progress"}
      /\ (out'.cmd = "complete" /\ out'.ok) =>
           LET t == out'.task
               before == Loaded.tasks[t]
               after == file'.tasks[t]
           IN /\ before.state \in {"todo", "in_progress"}
              /\ out'.result = "done" =>
                   after.state = "done" /\ after.blockers = <<>>
              /\ out'.result \in {"blocked", "failed"} =>
                   /\ after.state = "blocked"
                   /\ Given(out'.blockers) # <<>> => after.blockers = Given(out'.blockers)
                   /\ (Given(out'.blockers) = <<>> /\ out'.result = "failed")
                        => after.blockers = <<"task reported failed">>
                   /\ (Given(out'.blockers) = <<>> /\ out'.result = "blocked")
                        => after.blockers = <<"task reported blocked">>
              /\ out'.result \in VALID_RESULTS
              /\ after.finished_at # NULL
              /\ after.started_at # NULL
              /\ after.result_summary = out'.report.summary
              /\ after.files_changed = Given(out'.report.files)
              /\ after.tests_run = Given(out'.report.tests)
              /\ after.next_unblocked_tasks = Given(out'.report.next) ]_vars

C3_Witness ==
  /\ out.cmd = "complete"
  /\ out.ok
  /\ out.result = "failed"
  /\ out.blockers = <<>>
  /\ file.tasks[out.task].state = "blocked"
  /\ file.tasks[out.task].blockers = <<"task reported failed">>
  /\ file.tasks[out.task].attempts = 1

(* C4: a start on a plan task whose loaded record is not todo or that has  *)
(* a dependency not done, and a complete on a plan task whose loaded       *)
(* record is done or blocked, fails and leaves the status file as it was.  *)
C4_FailedTransitionChangesNothing ==
  [][ /\ ( /\ out'.cmd = "start"
           /\ out'.task \in PlanIds(plan)
           /\ \/ Loaded.tasks[out'.task].state # "todo"
              \/ \E d \in Deps(out'.task) : Loaded.tasks[d].state # "done" )
           => (~out'.ok /\ file' = file)
      /\ ( /\ out'.cmd = "complete"
           /\ out'.task \in PlanIds(plan)
           /\ Loaded.tasks[out'.task].state \in {"done", "blocked"} )
           => (~out'.ok /\ file' = file) ]_vars

C4_Witness ==
  /\ out.cmd = "complete"
  /\ ~out.ok
  /\ out.err = "cannot_complete"
  /\ file.tasks[out.task].state = "done"
  /\ \E t \in PlanIds(plan) : file.tasks[t].state = "in_progress"

(* C5: in every persisted status and in every summary a command printed,   *)
(* each of the four counts equals the number of plan tasks whose record is *)
(* in that state, and the counts add up to the number of plan tasks.       *)
C5_SummaryMatchesRecords ==
  file.exists =>
    /\ \A s \in VALID_STATES : file.summary[s] = Cardinality(InState(s))
    /\ file.summary["todo"] + file.summary["in_progress"]
         + file.summary["done"] + file.summary["blocked"] = Len(plan.taskOrder)
    /\ (out.ok /\ out.cmd \in {"init", "ready", "status", "start", "dispatch", "complete"})
         => \A s \in VALID_STATES : out.summary[s] = Cardinality(InState(s))

C5_Witness ==
  /\ out.cmd = "complete"
  /\ out.ok
  /\ file.summary["blocked"] = 1
  /\ file.summary["in_progress"] = 1

(* C6: a printed ready list holds exactly the tasks that are todo with     *)
(* every dependency done, in declaration order; for the plan T1, T2        *)
(* blocked_by [T1] it is [T1] while both are todo and [T2] after           *)
(* complete(T1, done).                                                     *)
C6_ReadyExactInOrder ==
  (out.ok /\ out.cmd \in {"ready", "status", "complete"}) =>
    /\ Range(out.ready) = Dispatchable
    /\ \A i, j \in 1..Len(out.ready) : i < j => Pos(out.ready[i]) < Pos(out.ready[j])
    /\ \A t \in PlanIds(plan) :
         (file.tasks[t].state = "todo" /\ plan.blocked_by[t] = <<>>) => t \in Range(out.ready)
    /\ ( /\ plan.blocked_by["T1"] = <<>>
         /\ plan.blocked_by["T2"] = <<"T1">>
         /\ file.tasks["T1"].state = "todo"
         /\ file.tasks["T2"].state = "todo" ) => out.ready = <<"T1">>
    /\ ( /\ plan.blocked_by["T1"] = <<>>
         /\ plan.blocked_by["T2"] = <<"T1">>
         /\ out.cmd = "complete" /\ out.task = "T1" /\ out.result = "done"
         /\ file.tasks["T2"].state = "todo" ) => out.ready = <<"T2">>

C6_Witness ==
  /\ out.cmd = "complete"
  /\ out.task = "T1"
  /\ out.result = "done"
  /\ plan.blocked_by["T2"] = <<"T1">>
  /\ plan.blocked_by["T1"] = <<>>
  /\ out.ready = <<"T2">>

\* a blocked record of the file whose blockers are all plan tasks now done
Resolved(t) ==
  /\ file.tasks[t].blockers # <<>>
  /\ \A b \in Range(file.tasks[t].blockers) :
       b \in PlanIds(plan) /\ file.tasks[b].state = "done"

(* C7: when a command loads with reevaluateBlocked and persists, a blocked *)
(* record it does not itself transition returns to todo with no blockers   *)
(* if and only if its blockers are non-empty and all IDs of plan tasks     *)
(* that are done; any other blocked record is persisted unchanged.         *)
C7_ReevaluateBlocked ==
  [][ (file.exists /\ Wrote(out')) =>
        \A t \in PlanIds(plan) :
          (file.tasks[t].state = "blocked"
             /\ ~(out'.ok /\ out'.cmd \in {"start", "dispatch", "complete"} /\ out'.task = t))
          => IF Resolved(t)
             THEN file'.tasks[t] = [file.tasks[t] EXCEPT !.state = "todo", !.blockers = <<>>]
             ELSE file'.tasks[t] = file.tasks[t] ]_vars

C7_Witness ==
  /\ out.cmd = "ready"
  /\ \E t \in PlanIds(plan) :
       /\ file.tasks[t].state = "todo"
       /\ file.tasks[t].finished_at # NULL
       /\ file.tasks[t].blockers = <<>>
  /\ \E t \in PlanIds(plan) : file.tasks[t].state = "done"

(* C8: init persists no in_progress record: a record that was in_progress  *)
(* is persisted as todo with owner empty and everything else, attempts     *)
(* included, unchanged, and a record that was done is persisted unchanged. *)
C8_InitResetsInProgress ==
  [][ out'.cmd = "init" =>
        /\ \A t \in PlanIds(plan) : file'.tasks[t].state # "in_progress"
        /\ file.exists =>
             \A t \in PlanIds(plan) :
               /\ file.tasks[t].state = "in_progress" =>
                    /\ file'.tasks[t].state = "todo"
                    /\ file'.tasks[t].owner = ""
                    /\ file'.tasks[t].attempts = file.tasks[t].attempts
                    /\ file'.tasks[t] = [file.tasks[t] EXCEPT !.state = "todo", !.owner = ""]
               /\ file.tasks[t].state = "done" => file'.tasks[t] = file.tasks[t] ]_vars

C8_Witness ==
  /\ out.cmd = "init"
  /\ \E t \in PlanIds(plan) :
       /\ file.tasks[t].state = "todo"
       /\ file.tasks[t].owner = ""
       /\ file.tasks[t].attempts = 2
       /\ file.tasks[t].started_at # NULL
       /\ file.tasks[t].finished_at = NULL
  /\ \E t \in PlanIds(plan) : file.tasks[t].state = "done"

----------------------------------------------------------------------------
(* Vocabulary of the concurrency properties                                *)

\* the processes whose command has run to its end inside a transaction:
\* committed, or rolled back by a fail()
Ran == { pr \in Procs : proc[pr].pc \in { "committed", "done", "failed" } }

\* the orders in which the processes of S can run one after the other
Orders(S) ==
  { o \in [ 1..Cardinality(S) -> S ] : \A i, j \in 1..Cardinality(S) : i # j => o[i] # o[j] }

InvsOf(o) == [ i \in 1..Len(o) |-> proc[o[i]].inv ]

BothExited == \A pr \in Procs : proc[pr].pc \in { "done", "failed", "busy" }

\* the record a successful complete leaves for its task
Completed(inv, record) ==
  /\ record.state = (IF inv.result = "done" THEN "done" ELSE "blocked")
  /\ record.result_summary = inv.report.summary
  /\ record.finished_at # NULL

(* C9: with the SQLite store, whatever the interleaving of two commands,   *)
(* the task records of task.db are at every moment those that the commands *)
(* which have run so far (committed, or failed inside their transaction)   *)
(* produce when run alone one after the other in some order; a command     *)
(* that gave up waiting for the write lock has written nothing.            *)
C9_DbWritersSerialized ==
  \E o \in Orders(Ran) :
    db = runAllDb(plan, [ db |-> hist.db0, file |-> hist.file0 ], InvsOf(o)).db

C9_Witness ==
  /\ \A pr \in Procs : proc[pr].pc = "done"
  /\ proc["p1"].inv.cmd = "complete" /\ proc["p1"].inv.task = "T1"
  /\ proc["p2"].inv.cmd = "complete" /\ proc["p2"].inv.task = "T2"
  /\ hist.db0 # EmptyDb
  /\ hist.db0["T1"].state = "in_progress"
  /\ db["T1"].state = "done"
  /\ db["T2"].state = "done"

(* C10: with the file-backed store, when two complete commands for two     *)
(* different tasks run concurrently and both succeed, the final            *)
(* task.status.json records both completions.                              *)
C10_NoLostCompletion ==
  ( /\ \A pr \in Procs : proc[pr].pc = "done" /\ proc[pr].inv.cmd = "complete"
    /\ proc["p1"].inv.task # proc["p2"].inv.task )
    => \A pr \in Procs : Completed(proc[pr].inv, file.tasks[proc[pr].inv.task])

(* C11: when two dispatch or start commands run concurrently against the   *)
(* same plan and both succeed, they have not started the same task.        *)
C11_DispatchAtomic ==
  ( \A pr \in Procs : proc[pr].pc = "done" /\ proc[pr].inv.cmd \in { "start", "dispatch" } )
    => proc["p1"].task # proc["p2"].task

(* C12: a command that loads task.status.json while another command is     *)
(* writing it reads a complete snapshot, the previous or the new one: no   *)
(* command ends on a status file it could not parse.                       *)
C12_ReaderSeesWholeSnapshot ==
  \A pr \in Procs : proc[pr].pc # "parse_failed"

(* C13: a command that ends in failure leaves task.status.json exactly as  *)
(* it was before the command, whichever command it is.                     *)
C13_FailureChangesNothing ==
  [][ ~out'.ok => file' = file ]_vars

(* C14: init, ready or status run right after a loading command (the same  *)
(* command, or any of the three unless this one is init after ready or     *)
(* status, which adds resetInProgress) persists the file it found, record  *)
(* for record, and prints the same summary and the same ready list.        *)
C14_LoadIdempotent ==
  [][ out'.reload =>
        /\ file' = file
        /\ out'.summary = out.summary
        /\ (out.cmd # "init" /\ out'.cmd # "init") => out'.ready = out.ready ]_vars

C14_Witness ==
  /\ out.reload
  /\ out.cmd = "ready"
  /\ out.ready # <<>>
  /\ \E t \in PlanIds(plan) :
       /\ file.tasks[t].state = "todo"
       /\ file.tasks[t].finished_at # NULL
       /\ file.tasks[t].blockers = <<>>
  /\ \E t \in PlanIds(plan) : file.tasks[t].state = "done"

(* C15 as stated: a successful start followed immediately by complete with *)
(* result done leaves the task's record with blockers empty and attempts   *)
(* equal to 1.                                                             *)
C15_StartThenDoneAttemptsOne ==
  [][ (out'.cmd = "complete" /\ out'.ok /\ out'.direct /\ out'.result = "done") =>
        /\ file'.tasks[out'.task].blockers = <<>>
        /\ file'.tasks[out'.task].attempts = 1 ]_vars

(* C15 amended: a successful start (or dispatch) followed immediately by   *)
(* complete with result done leaves the task's record done with blockers   *)
(* empty and attempts one more than the task had before the start: 1 if    *)
(* and only if the task had never been started before.                     *)
C15_StartThenDoneAttempts ==
  [][ (out'.cmd = "complete" /\ out'.ok /\ out'.direct /\ out'.result = "done") =>
        /\ file'.tasks[out'.task].state = "done"
        /\ file'.tasks[out'.task].blockers = <<>>
        /\ file'.tasks[out'.task].attempts = out.attempts + 1
        /\ file'.tasks[out'.task].attempts = file.tasks[out'.task].attempts
        /\ file'.tasks[out'.task].attempts = 1 <=> out.attempts = 0 ]_vars

C15_Witness ==
  /\ out.cmd = "complete"
  /\ out.ok
  /\ out.direct
  /\ out.result = "done"
  /\ file.tasks[out.task].state = "done"
  /\ file.tasks[out.task].blockers = <<>>
  /\ file.tasks[out.task].attempts = 2

\* the attempts of task t in a status file; a task with no record has none
AttemptsIn(f, t) == IF t \in DOMAIN f.tasks THEN f.tasks[t].attempts ELSE 0

\* task t is in_progress in status file f
InProgressIn(f, t) == t \in DOMAIN f.tasks /\ f.tasks[t].state = "in_progress"

(* C16: over every command, a task's attempts never decrease; they rise by *)
(* exactly one when the command moves the task into in_progress and stay   *)
(* as they are on every other step (init's reset, blocked-to-todo          *)
(* reevaluation, complete); a task with no record yet counts 0 attempts.   *)
C16_AttemptsCountStarts ==
  [][ \A t \in PlanIds(plan) :
        /\ AttemptsIn(file', t) >= AttemptsIn(file, t)
        /\ IF InProgressIn(file', t) /\ ~InProgressIn(file, t)
           THEN AttemptsIn(file', t) = AttemptsIn(file, t) + 1
           ELSE AttemptsIn(file', t) = AttemptsIn(file, t) ]_vars

C16_Witness ==
  /\ file.exists
  /\ \E t \in PlanIds(plan) :
       /\ file.tasks[t].state = "blocked"
       /\ file.tasks[t].attempts = 2
  /\ \E t \in PlanIds(plan) :
       /\ file.tasks[t].state = "done"
       /\ file.tasks[t].attempts = 0

\* the rows of task.db as the next load reads them
DbRecords == [ t \in DOMAIN db |-> readTaskRecordFromDb(db, t) ]

(* C17: for every sequence of command lines given to both CLIs from an     *)
(* empty store, taskctl.mjs and src/index.ts agree on the exit status and  *)
(* the fail() taken, on the target, the summary, the ready list and the    *)
(* dependency results printed, and task.status.json has the same summary   *)
(* and the same records in both directories; the rows of task.db hold      *)
(* those records as well, unless the store was just replaced.              *)
C17_BackendsAgree ==
  /\ out.file = out.db
  /\ file = dbFile
  /\ (db # EmptyDb) => (file.exists /\ DbRecords = file.tasks)

C17_Witness ==
  /\ out.cmd = "complete"
  /\ out.db.ok
  /\ out.db.ready = <<"T2">>
  /\ db["T1"].state = "done"
  /\ db["T1"].files_changed = <<"f1">>
  /\ dbFile.tasks["T1"].attempts = 1
  /\ dbFile.summary["done"] = 1

\* a blocked record of the exported snapshot whose blockers are all done
ResolvedIn(f, t) ==
  /\ f.tasks[t].state = "blocked"
  /\ f.tasks[t].blockers # <<>>
  /\ \A b \in Range(f.tasks[t].blockers) :
       b \in PlanIds(plan) /\ f.tasks[b].state = "done"

\* the step is a ready or status command run on the new task.db
ReexportStep == out.cmd = "reimport" /\ out'.cmd \in { "ready", "status" }

(* C18 as stated: when task.db is replaced by one without task rows, the   *)
(* next ready or status command exports the same state for every task as   *)
(* the snapshot it imported.                                               *)
C18_ReexportSameStates ==
  [][ ReexportStep =>
        \A t \in PlanIds(plan) : dbFile'.tasks[t].state = dbFile.tasks[t].state ]_vars

(* C18: a task.db without task rows takes every record of the exported     *)
(* task.status.json unchanged, and the ready or status command that does   *)
(* the import exports the same state for every task except a blocked task  *)
(* whose blockers are all done, which it exports as todo.                  *)
C18_RoundTrip ==
  [][ out.cmd = "reimport" =>
        /\ \A t \in PlanIds(plan) :
             readTaskRecordFromDb(bootstrapDbForPlan(db, dbFile, plan), t) = dbFile.tasks[t]
        /\ ReexportStep =>
             \A t \in PlanIds(plan) :
               dbFile'.tasks[t].state =
                 IF ResolvedIn(dbFile, t) THEN "todo" ELSE dbFile.tasks[t].state ]_vars

C18_Witness ==
  /\ out.imported
  /\ out.cmd = "status"
  /\ DbRecords["T1"].state = "done"
  /\ DbRecords["T1"].files_changed = <<"f1">>
  /\ DbRecords["T2"].state = "in_progress"
  /\ dbFile.tasks = DbRecords

\* Y in blocked_by(X) for a task X of the validated list
DependsOn(x, y) == x \in PlanIds(plan) /\ y \in Range(plan.blocked_by[x])

\* every ID from the first conjunct on is followed by one of its dependencies
\* and the path returns to its first ID
ClosedPath(path) ==
  /\ Len(path) >= 2
  /\ path[1] = path[Len(path)]
  /\ \A k \in 1..(Len(path) - 1) : DependsOn(path[k], path[k + 1])

\* the cycles of the blocked_by relation: closed paths that repeat no ID but
\* the first
Cycles ==
  { path \in UNION { [ 1..n -> CycleTasks ] : n \in 2..(Cardinality(CycleTasks) + 1) } :
      /\ ClosedPath(path)
      /\ \A i, j \in 1..(Len(path) - 1) : path[i] = path[j] => i = j }

\* two closed paths go round the same cycle, from any of its tasks
SameCycle(a, b) ==
  /\ Len(a) = Len(b)
  /\ \E r \in 0..(Len(a) - 2) :
       \A k \in 1..(Len(a) - 1) : b[k] = a[((k - 1 + r) % (Len(a) - 1)) + 1]

\* the three tasks block each other in a ring
IsRing ==
  \E a, b, c \in CycleTasks :
    /\ { a, b, c } = CycleTasks
    /\ plan.blocked_by = [ t \in CycleTasks |->
                             IF t = a THEN <<b>> ELSE IF t = b THEN <<c>> ELSE <<a>> ]

(* C19: detectDependencyCycles reports a cycle exactly when blocked_by has *)
(* one; every reported path starts and ends at the same task and each ID   *)
(* on it is followed by one of its blocked_by IDs; for three tasks blocking *)
(* each other in a ring the one reported path goes through all three.      *)
C19_CyclesSoundAndComplete ==
  out.cmd = "validate" =>
    /\ (out.errors # <<>>) <=> (Cycles # {})
    /\ \A i \in 1..Len(out.errors) : ClosedPath(out.errors[i])
    /\ IsRing =>
         /\ Len(out.errors) = 1
         /\ Range(out.errors[1]) = CycleTasks
         /\ Len(out.errors[1]) = 4

C19_Witness ==
  /\ out.cmd = "validate"
  /\ plan.taskOrder = <<"C", "B", "A">>
  /\ plan.blocked_by = [ t \in CycleTasks |->
                           IF t = "A" THEN <<"B">> ELSE IF t = "B" THEN <<"C">> ELSE <<"A">> ]
  /\ out.errors = << <<"C", "A", "B", "C">> >>

(* C20: for every cycle of blocked_by, one validation run reports an error *)
(* whose path is that cycle.                                               *)
C20_EveryCycleReported ==
  out.cmd = "validate" =>
    \A c \in Cycles : \E i \in 1..Len(out.errors) : SameCycle(c, out.errors[i])

\* what each check of the generator finds in the document, taken alone
ProblemsOf(document) ==
  LET parsed == parseTasksYaml(document)
  IN Range(parsed.errors)
       \cup Range(dependencyErrors(parsed))
       \cup Range(groupErrors(parsed.criticalPaths, "critical_paths", parsed))
       \cup Range(groupErrors(parsed.parallelWindows, "parallel_windows", parsed))

(* C21: a failing run of the generator reports every problem of the        *)
(* document: the invalid or missing fields, the duplicate IDs, and the     *)
(* self, missing dependency, path and window references.                   *)
C21_EveryProblemReported ==
  (out.cmd = "generate" /\ ~out.ok) => ProblemsOf(plan) \subseteq Range(out.errors)

RECURSIVE TransitiveClosure(_, _)
\* the pairs joined by a path of at most n + 1 edges of R
TransitiveClosure(R, n) ==
  IF n = 0 THEN R
  ELSE LET T == TransitiveClosure(R, n - 1)
       IN T \cup { <<q[1][1], q[2][2]>> : q \in { r \in T \X R : r[1][2] = r[2][1] } }

\* the relation X blocked_by Y of a list of tasks or nodes has a cycle
Cyclic(items) ==
  LET R == UNION { { <<items[i].id, items[i].blocked_by[k]>> :
                       k \in 1..Len(items[i].blocked_by) } : i \in 1..Len(items) }
  IN \E e \in TransitiveClosure(R, Len(items)) : e[1] = e[2]

NoRepeats(l) == \A i, j \in 1..Len(l) : l[i] = l[j] => i = j

\* unique IDs, every reference names a task, no self dependency
ReferenceIntegrity(items, paths, windows) ==
  LET ids == { items[i].id : i \in 1..Len(items) }
  IN /\ \A i, j \in 1..Len(items) : items[i].id = items[j].id => i = j
     /\ \A i \in 1..Len(items) :
          /\ Range(items[i].blocked_by) \subseteq ids
          /\ items[i].id \notin Range(items[i].blocked_by)
     /\ \A i \in 1..Len(paths) : Range(paths[i].tasks) \subseteq ids
     /\ \A i \in 1..Len(windows) : Range(windows[i].tasks) \subseteq ids

\* the generator wrote a graph with the integrity C23 lists
EmittedGraphIsSound ==
  out.ok =>
    /\ ReferenceIntegrity(out.graph.nodes, out.graph.critical_paths,
                          out.graph.parallel_windows)
    /\ \A i \in 1..Len(out.graph.nodes) : NoRepeats(out.graph.nodes[i].blocked_by)
    /\ ~Cyclic(out.graph.nodes)

\* the document breaks reference integrity or has a dependency cycle
DocumentUnsound ==
  \/ ~ReferenceIntegrity(plan.tasks, plan.critical_paths, plan.parallel_windows)
  \/ Cyclic(plan.tasks)

(* C23 as stated: an emitted graph has unique IDs, resolved references, no *)
(* self dependency, duplicate-free blocked_by lists and no cycle, and a    *)
(* document violating any of these, a repeated blocked_by entry included,  *)
(* produces no graph.                                                      *)
C23_NoGraphForAnyViolation ==
  out.cmd = "generate" =>
    /\ EmittedGraphIsSound
    /\ (DocumentUnsound \/ \E i \in 1..Len(plan.tasks) : ~NoRepeats(plan.tasks[i].blocked_by))
         => ~out.ok

(* C23: an emitted graph has unique IDs, resolved references, no self      *)
(* dependency, duplicate-free blocked_by lists and no cycle; a document    *)
(* with a duplicate ID, an unresolved reference, a self dependency or a    *)
(* cycle produces no graph; a repeated blocked_by entry is dropped and the *)
(* graph is emitted with each list holding the entry once.                 *)
C23_GraphIntegrity ==
  out.cmd = "generate" =>
    /\ EmittedGraphIsSound
    /\ DocumentUnsound => ~out.ok
    /\ out.ok => \A i \in 1..Len(plan.tasks) :
                   out.graph.nodes[i].blocked_by = parseIdentifierList(plan.tasks[i].blocked_by)

C23_Witness ==
  /\ out.cmd = "generate"
  /\ out.ok
  /\ plan.tasks[2].blocked_by = <<"A", "A">>
  /\ out.graph.nodes[2].id = "B"
  /\ out.graph.nodes[2].blocked_by = <<"A">>
  /\ out.graph.critical_paths[1].tasks = <<"A">>

\* the tasks of the plan as a list of [id, blocked_by]
PlanTasks ==
  [ i \in 1..Len(plan.taskOrder) |->
      [ id |-> plan.taskOrder[i], blocked_by |-> plan.blocked_by[plan.taskOrder[i]] ] ]

(* C22: a plan loadPlan returns has every blocked_by entry naming a task   *)
(* of the plan, no task listing itself, and no cycle in blocked_by.        *)
C22_AcceptedPlanIsSound ==
  (out.cmd = "loadPlan" /\ out.ok) =>
    /\ \A t \in PlanIds(plan) :
         Range(plan.blocked_by[t]) \subseteq PlanIds(plan) \ { t }
    /\ ~Cyclic(PlanTasks)

(* C24: prompt and dispatch emit a payload only for a plan task whose      *)
(* loaded record is todo with every blocked_by dependency done, and the    *)
(* payload's dependency_results name exactly the task's dependencies, in   *)
(* order, each of them done in the status loaded and in the one persisted. *)
C24_PayloadOnlyForDispatchable ==
  [][ (out'.ok /\ out'.cmd \in { "prompt", "dispatch" }) =>
        /\ out'.task \in PlanIds(plan)
        /\ Loaded.tasks[out'.task].state = "todo"
        /\ \A d \in Deps(out'.task) :
             Loaded.tasks[d].state = "done" /\ file'.tasks[d].state = "done"
        /\ Len(out'.deps) = Len(plan.blocked_by[out'.task])
        /\ \A i \in 1..Len(out'.deps) :
             /\ out'.deps[i].task_id = plan.blocked_by[out'.task][i]
             /\ out'.deps[i].result_summary = file'.tasks[out'.deps[i].task_id].result_summary ]_vars

C24_Witness ==
  /\ out.ok
  /\ out.cmd = "prompt"
  /\ out.task = "T2"
  /\ Len(out.deps) = 1
  /\ out.deps[1].task_id = "T1"
  /\ out.deps[1].files_changed = <<"f1">>
  /\ file.tasks["T1"].state = "done"
  /\ file.tasks["T2"].state = "todo"

(* C25: a SPEC.md of exactly 200 lines is the excerpt in full, whatever    *)
(* the task's context and whether or not a line terminator follows its     *)
(* 200th line.                                                             *)
C25_TwoHundredLinesInFull ==
  (out.cmd = "excerpt" /\ plan.total = FullSpecLines) =>
    /\ out.mode = "full"
    /\ out.excerpt = TextOf(plan)

\* section h of the document is one the task's context asks for
Referenced(h) == headingSlug(plan.titles[h]) \in extractSpecAnchors(plan.context)

\* the sections that section h runs over: itself and the following ones up
\* to the next heading of the same or a shallower level
Covers(h) ==
  { k \in h..MaxSections : \A j \in (h + 1)..k : plan.levels[j] > plan.levels[h] }

\* the lines of section h: its heading, then every line before the heading
\* that closes it or the end of the document, without trailing blank lines
SectionLines(h) ==
  trimEnd(Concat([ n \in 1..Cardinality(Covers(h)) |->
                     << Line(plan.levels[h + n - 1], plan.titles[h + n - 1], h + n - 1),
                        Line(0, "body", h + n - 1), BlankLine >> ])
            \o (IF MaxSections \in Covers(h)
                THEN << Line(0, "closing", MaxSections) >> ELSE <<>>))

(* C26: for a SPEC.md of more than 200 lines the excerpt is the referenced *)
(* sections in document order, one blank line between two of them, each    *)
(* from its heading up to the next heading of equal or shallower level or  *)
(* the end of the document; no line of the preamble and no line of a       *)
(* section that is neither referenced nor nested in a referenced one       *)
(* appears in it.                                                          *)
C26_OnlyReferencedSections ==
  (out.cmd = "excerpt" /\ plan.total > FullSpecLines) =>
    /\ out.excerpt =
         joinSections([ n \in 1..Cardinality({ h \in 1..MaxSections : Referenced(h) }) |->
           SectionLines(CHOOSE h \in 1..MaxSections :
                          /\ Referenced(h)
                          /\ Cardinality({ g \in 1..h : Referenced(g) }) = n) ])
    /\ \A i \in 1..Len(out.excerpt) :
         /\ out.excerpt[i].text # "preamble"
         /\ out.excerpt[i].sec > 0 =>
              \E h \in 1..MaxSections : Referenced(h) /\ out.excerpt[i].sec \in Covers(h)
    /\ out.mode = IF \E h \in 1..MaxSections : Referenced(h) THEN "sections"
                  ELSE IF extractSpecAnchors(plan.context) = {} THEN "no_references"
                  ELSE "no_matching_sections"

C26_Witness ==
  /\ out.cmd = "excerpt"
  /\ plan.total = FullSpecLines + 50
  /\ plan.context = << "SPEC.md#login-flow" >>
  /\ plan.titles[1] = "Login Flow"
  /\ plan.titles[2] = "Payment Flow"
  /\ plan.levels[1] = 2
  /\ plan.levels[2] = 2
  /\ out.mode = "sections"
  /\ out.excerpt[1] = Line(2, "Login Flow", 1)
  /\ \A i \in 1..Len(out.excerpt) : out.excerpt[i].text # "Payment Flow"

----------------------------------------------------------------------------
(* The orchestration loop of SKILL.md (steps 5 to 10): dispatch, delegate, *)
(* complete, until nothing is left to dispatch                             *)

LoopTasks == << "T1", "T2", "T3" >>

\* the plans the loop is run on: every plan of three tasks that loadPlan
\* accepts and whose blocked_by relation has no cycle
LoopPlans ==
  { p \in [ taskOrder : { LoopTasks },
            blocked_by : [ Range(LoopTasks) ->
                             { <<>>, <<"T1">>, <<"T2">>, <<"T3">>,
                               <<"T1", "T2">>, <<"T1", "T3">>, <<"T2", "T3">> } ] ] :
      /\ validateDependencies(p)
      /\ ~Cyclic([ i \in 1..Len(p.taskOrder) |->
                     [ id |-> p.taskOrder[i], blocked_by |-> p.blocked_by[p.taskOrder[i]] ] ]) }

\* what a worker may answer
WorkerResults == { a \in CompleteArgs : a.result \in VALID_RESULTS }

InitLoop ==
  /\ plan \in LoopPlans
  /\ file = EmptyFile
  /\ out = Output("none", "", TRUE, "")
  /\ db = EmptyDb
  /\ dbLock = NoProc
  /\ proc = [ pr \in Procs |-> IdleProc ]
  /\ hist = [ file0 |-> EmptyFile, db0 |-> EmptyDb ]
  /\ dbFile = EmptyFile

\* step 4: init
loopInit == out.cmd = "none" /\ commandInit

\* commandPrompt, written with the command's outcome taken from transition
promptStep(taskId) ==
  \E r \in { transition(plan, Loaded, Invocation("prompt", taskId, "", NoArgs)) } :
    /\ file' = writeStatus(r.status)
    /\ out' = IF r.err # "" THEN Output("prompt", r.task, FALSE, r.err)
              ELSE [ Output("prompt", r.task, TRUE, "") EXCEPT
                       !.deps = dependencyResults(plan, Loaded, r.task) ]
    /\ UNCHANGED <<plan, conc>>

\* commandDispatch, written with the command's effect on the loaded status
\* taken from transition
dispatchStep(taskId, owner) ==
  \E r \in { transition(plan, Loaded, Invocation("dispatch", taskId, owner, NoArgs)) } :
    /\ r.task \in PlanIds(plan) => Loaded.tasks[r.task].attempts < MaxAttempts
    /\ file' = IF r.err = "" THEN writeStatus(r.status) ELSE file
    /\ out' = IF r.err # "" THEN Output("dispatch", r.task, FALSE, r.err)
              ELSE [ Output("dispatch", r.task, TRUE, "") EXCEPT
                       !.owner = owner, !.summary = r.status.summary,
                       !.deps = dependencyResults(plan, Loaded, r.task),
                       !.attempts = Loaded.tasks[r.task].attempts ]
    /\ UNCHANGED <<plan, conc>>

\* step 5: dispatch without a task ID, after init, after a complete, or again
\* after a dispatch that failed
loopDispatch ==
  /\ out.cmd # "none"
  /\ ~(out.ok /\ out.cmd = "dispatch")
  /\ \E owner \in StartOwners : dispatchStep("", owner)

\* step 8: complete the task just dispatched with the worker's answer
loopComplete ==
  /\ out.ok /\ out.cmd = "dispatch"
  /\ \E a \in WorkerResults :
       commandComplete(out.task, a.result, a.report, a.blockers, a.owner)

NextLoop == loopInit \/ loopDispatch \/ loopComplete

\* step 10: the orchestrator repeats dispatch -> complete
SpecLoop == InitLoop /\ [][NextLoop]_vars /\ WF_vars(NextLoop)

\* no todo task remains in task.status.json: every task is done or blocked
NoTodoLeft ==
  /\ file.exists
  /\ \A t \in PlanIds(plan) : Loaded.tasks[t].state \in { "done", "blocked" }

\* the loop can go no further: dispatch found no ready task, wrote nothing,
\* and every later dispatch reads the same status and fails the same way
NothingToDispatch ==
  /\ out.cmd = "dispatch"
  /\ ~out.ok
  /\ getReadyTaskIds(plan, Loaded) = <<>>

(* C27: on every acyclic plan and whatever the workers answer, the loop    *)
(* dispatch -> complete ends in a status in which every task is done or    *)
(* blocked: once dispatch finds nothing ready, no todo task remains.       *)
C27_LoopFinishes == NothingToDispatch => NoTodoLeft

\* t is dispatchable in the status the command loads: todo, every dependency
\* done
DispatchableOnLoad(t) ==
  /\ t \in PlanIds(plan)
  /\ Loaded.tasks[t].state = "todo"
  /\ \A d \in Deps(t) : Loaded.tasks[d].state = "done"

\* t is the first dispatchable task in the order the plan declares
IsFirstReady(t) ==
  /\ DispatchableOnLoad(t)
  /\ \A i, j \in 1..Len(plan.taskOrder) :
       (plan.taskOrder[j] = t /\ i < j) => ~DispatchableOnLoad(plan.taskOrder[i])

\* the step started t and no other task
StartedOnly(t) ==
  /\ file'.exists
  /\ file'.tasks[t].state = "in_progress"
  /\ \A u \in PlanIds(plan) \ { t } : file'.tasks[u] = Loaded.tasks[u]

\* the step started no task
StartedNone ==
  file'.exists =>
    \A u \in PlanIds(plan) :
      file'.tasks[u].state = "in_progress" => Loaded.tasks[u].state = "in_progress"

\* what a prompt or dispatch step given no task ID does
TargetsFirstReady ==
  IF \E t \in PlanIds(plan) : DispatchableOnLoad(t)
  THEN out'.ok /\ IsFirstReady(out'.task)
  ELSE ~out'.ok /\ StartedNone

\* what a prompt or dispatch step given task ID t does
TargetsExactly(t) ==
  /\ out'.task = t
  /\ out'.ok <=> DispatchableOnLoad(t)
  /\ ~out'.ok => StartedNone

(* C28: without a task ID, prompt and dispatch target the first ready task *)
(* in declaration order and fail when no task is ready; with a task ID     *)
(* they target that task alone and fail, starting nothing, when it is      *)
(* unknown or not dispatchable; a dispatch starts its target and no other  *)
(* task, and never a task whose stored state is in_progress or done.       *)
C28_TargetResolution ==
  [][ /\ out'.cmd = "prompt" =>
           /\ promptStep("") => TargetsFirstReady /\ StartedNone
           /\ \A t \in TaskArgs : promptStep(t) => TargetsExactly(t) /\ StartedNone
      /\ out'.cmd = "dispatch" =>
           \A owner \in StartOwners :
             /\ dispatchStep("", owner) =>
                  /\ TargetsFirstReady
                  /\ out'.ok => /\ StartedOnly(out'.task)
                                /\ file.exists =>
                                     file.tasks[out'.task].state \notin { "in_progress", "done" }
             /\ \A t \in TaskArgs :
                  dispatchStep(t, owner) =>
                    /\ TargetsExactly(t)
                    /\ out'.ok => StartedOnly(t) ]_vars

\* dispatch with no task ID started T1 while T2 was ready as well
C28_Witness ==
  /\ out.ok
  /\ out.cmd = "dispatch"
  /\ out.task = "T1"
  /\ plan.blocked_by["T2"] = <<>>
  /\ file.tasks["T1"].state = "in_progress"
  /\ file.tasks["T2"].state = "todo"
  /\ file.tasks["T1"].attempts = 2

----------------------------------------------------------------------------
(* Loading a status file written for an earlier version of the plan        *)

\* a task the plan no longer has
StaleTask == "T0"

\* records as the commands write them: untouched, started, done, blocked on
\* a plan task, blocked on something else
StoredRecords ==
  { defaultTaskStatus,
    startedRecord(defaultTaskStatus, "o1"),
    [ startedRecord(defaultTaskStatus, "o1") EXCEPT
        !.state = "done", !.finished_at = Timestamp, !.result_summary = "s1",
        !.files_changed = <<"f1">> ],
    [ startedRecord(defaultTaskStatus, "o1") EXCEPT
        !.state = "blocked", !.finished_at = Timestamp, !.blockers = <<"T1">> ],
    [ startedRecord(defaultTaskStatus, "o1") EXCEPT
        !.state = "blocked", !.finished_at = Timestamp, !.blockers = <<"ext">> ] }

\* task.status.json as an earlier run left it: any of the plan's tasks may be
\* missing, and a task since removed from the plan may still be there
StoredFiles ==
  { EmptyFile } \cup
  UNION { { [ exists |-> TRUE,
              summary |-> [ st \in VALID_STATES |->
                              Cardinality({ t \in K : tasks[t].state = st }) ],
              tasks |-> tasks ] : tasks \in [ K -> StoredRecords ] } :
          K \in SUBSET { "T1", "T2", StaleTask } }

InitLoad ==
  /\ plan \in loadPlan
  /\ file \in StoredFiles
  /\ out = Output("none", "", TRUE, "")
  /\ db = EmptyDb
  /\ dbLock = NoProc
  /\ proc = [ pr \in Procs |-> IdleProc ]
  /\ hist = [ file0 |-> file, db0 |-> EmptyDb ]
  /\ dbFile = EmptyFile

\* the commands that persist the status exactly as loadStatus returned it
NextLoad == commandInit \/ commandStatus \/ commandReady

SpecLoad == InitLoad /\ [][NextLoad]_vars

\* the stored record of a present task as the load leaves it: in_progress
\* reset by init, blocked returned to todo when every blocker is a plan task
\* stored done
LoadedFrom(t, resetInProgress) ==
  IF resetInProgress /\ file.tasks[t].state = "in_progress"
  THEN [ file.tasks[t] EXCEPT !.state = "todo", !.owner = "" ]
  ELSE IF /\ file.tasks[t].state = "blocked"
          /\ file.tasks[t].blockers # <<>>
          /\ \A b \in Range(file.tasks[t].blockers) :
               /\ b \in PlanIds(plan) \cap DOMAIN file.tasks
               /\ file.tasks[b].state = "done"
  THEN [ file.tasks[t] EXCEPT !.state = "todo", !.blockers = <<>> ]
  ELSE file.tasks[t]

(* C29, as stated: a load gives every plan task absent from the stored     *)
(* state a default record, leaves every stored record of a plan task as it *)
(* was, and persists exactly the plan's task IDs.                          *)
C29_LoadKeepsStoredRecords ==
  [][ /\ DOMAIN file'.tasks = PlanIds(plan)
      /\ \A t \in PlanIds(plan) :
           file'.tasks[t] = IF t \in DOMAIN file.tasks THEN file.tasks[t]
                            ELSE defaultTaskStatus ]_vars

(* C29: a load gives every plan task absent from the stored state a        *)
(* default record, persists exactly the plan's task IDs, and leaves every  *)
(* stored record of a plan task as it was except that init resets an       *)
(* in_progress record to todo with no owner and every load returns a       *)
(* blocked record to todo, blockers cleared, when all its blockers are     *)
(* plan tasks stored done.                                                 *)
C29_LoadDefaultsAndKeys ==
  [][ /\ DOMAIN file'.tasks = PlanIds(plan)
      /\ \A t \in PlanIds(plan) :
           file'.tasks[t] = IF t \in DOMAIN file.tasks
                            THEN LoadedFrom(t, out'.cmd = "init")
                            ELSE defaultTaskStatus ]_vars

\* status loaded a file that lacked T2 and still held the removed T0: T1's
\* done record is kept, T2 is a default record, T0 is gone
C29_Witness ==
  /\ out.cmd = "status"
  /\ DOMAIN hist.file0.tasks = { "T1", StaleTask }
  /\ hist.file0.tasks["T1"].state = "done"
  /\ file.tasks["T1"] = hist.file0.tasks["T1"]
  /\ file.tasks["T2"] = defaultTaskStatus
  /\ DOMAIN file.tasks = { "T1", "T2" }

----------------------------------------------------------------------------
(* Dispatch and completion under fair scheduling, every worker succeeding  *)

\* the answers of workers that succeed
DoneResults == { a \in CompleteArgs : a.result = "done" }

progressInit == out.cmd = "none" /\ commandInit

\* a ready task exists and dispatch, given no task ID, starts one; other
\* tasks may be in progress at the time
progressDispatch ==
  /\ out.cmd # "none"
  /\ getReadyTaskIds(plan, Loaded) # <<>>
  /\ \E owner \in StartOwners : dispatchStep("", owner)

\* the worker of the dispatched task t reports done
progressComplete(t) ==
  /\ file.exists
  /\ file.tasks[t].state = "in_progress"
  /\ \E a \in DoneResults : commandComplete(t, a.result, a.report, a.blockers, a.owner)

NextProgress ==
  \/ progressInit
  \/ progressDispatch
  \/ \E t \in Range(LoopTasks) : progressComplete(t)

\* a ready task is eventually dispatched, a dispatched task is eventually
\* completed
SpecProgress ==
  /\ InitLoop
  /\ [][NextProgress]_vars
  /\ WF_vars(progressInit)
  /\ WF_vars(progressDispatch)
  /\ \A t \in Range(LoopTasks) : WF_vars(progressComplete(t))

AllDone ==
  /\ file.exists
  /\ \A t \in PlanIds(plan) : file.tasks[t].state = "done"
  /\ getReadyTaskIds(plan, Loaded) = <<>>

(* C30: on an acyclic plan whose references resolve, when every ready task *)
(* is eventually dispatched and every dispatched task eventually completed *)
(* with result done, eventually every task is done and no task is ready.   *)
C30_Progress == <>AllDone

\* the chain T1 <- T2 <- T3 with all three tasks completed
C30_Witness ==
  /\ AllDone
  /\ plan.blocked_by["T2"] = <<"T1">>
  /\ plan.blocked_by["T3"] = <<"T2">>
  /\ out.cmd = "complete"
  /\ out.task = "T3"

(* C31: done is absorbing: no command changes the record of a task that is *)
(* stored done; its state, result_summary and files_changed stay.          *)
C31_DoneIsAbsorbing ==
  [][ \A t \in PlanIds(plan) :
        (file.exists /\ file.tasks[t].state = "done") =>
          /\ file'.tasks[t].state = "done"
          /\ file'.tasks[t].result_summary = file.tasks[t].result_summary
          /\ file'.tasks[t].files_changed = file.tasks[t].files_changed ]_vars

\* complete was tried on T1, already done with files f1, and was refused
C31_Witness ==
  /\ out.cmd = "complete"
  /\ out.task = "T1"
  /\ ~out.ok
  /\ out.err = "cannot_complete"
  /\ file.tasks["T1"].state = "done"
  /\ file.tasks["T1"].files_changed = <<"f1">>

(* C32: in every stored status a record has a non-empty blockers list      *)
(* exactly when its state is blocked.                                      *)
C32_BlockersIffBlocked ==
  file.exists =>
    \A t \in PlanIds(plan) :
      file.tasks[t].blockers # <<>> <=> file.tasks[t].state = "blocked"

\* T2 was completed blocked with no usable --blockers and carries the
\* synthetic blocker; T1, started again after a blocked result, carries none
C32_Witness ==
  /\ file.exists
  /\ file.tasks["T2"].state = "blocked"
  /\ file.tasks["T2"].blockers = <<"task reported blocked">>
  /\ file.tasks["T1"].state = "in_progress"
  /\ file.tasks["T1"].attempts = 2
  /\ file.tasks["T1"].blockers = <<>>

(* C33: in every stored status a record that is in_progress has every      *)
(* blocked_by dependency done, attempts >= 1, a non-empty owner,           *)
(* started_at set and finished_at null.                                    *)
C33_InProgressRecord ==
  file.exists =>
    \A t \in PlanIds(plan) :
      file.tasks[t].state = "in_progress" =>
        /\ \A i \in 1..Len(plan.blocked_by[t]) :
             file.tasks[plan.blocked_by[t][i]].state = "done"
        /\ file.tasks[t].attempts >= 1
        /\ file.tasks[t].owner # ""
        /\ file.tasks[t].started_at # NULL
        /\ file.tasks[t].finished_at = NULL

\* T2, which depends on T1, is in progress for the second time, after an
\* attempt that had ended blocked
C33_Witness ==
  /\ file.exists
  /\ plan.blocked_by["T2"] = <<"T1">>
  /\ file.tasks["T1"].state = "done"
  /\ file.tasks["T2"].state = "in_progress"
  /\ file.tasks["T2"].attempts = 2
  /\ file.tasks["T2"].finished_at = NULL

(* C34: in every stored status a record that is done has every blocked_by  *)
(* dependency done.                                                        *)
C34_DoneAfterDependencies ==
  file.exists =>
    \A t \in PlanIds(plan) :
      file.tasks[t].state = "done" =>
        \A i \in 1..Len(plan.blocked_by[t]) :
          file.tasks[plan.blocked_by[t][i]].state = "done"

\* the stored record of t with nothing but the load-time reevaluation
\* applied; a default record when nothing is stored
Reevaluated(t) ==
  IF file.exists /\ t \in DOMAIN file.tasks THEN LoadedFrom(t, FALSE)
  ELSE defaultTaskStatus

(* C35: a successful start, dispatch or complete on a task leaves every    *)
(* other record as stored, except blocked records the reevaluation on load *)
(* returned to todo; ready, prompt and status change no record but by that *)
(* reevaluation; no command other than init takes a record out of          *)
(* in_progress except complete on that task.                               *)
C35_Frame ==
  [][ /\ (out'.ok /\ out'.cmd \in { "start", "dispatch", "complete" }) =>
           \A u \in PlanIds(plan) \ { out'.task } : file'.tasks[u] = Reevaluated(u)
      /\ out'.cmd \in { "ready", "prompt", "status" } =>
           \A u \in PlanIds(plan) : file'.tasks[u] = Reevaluated(u)
      /\ out'.cmd # "init" =>
           \A u \in PlanIds(plan) :
             (file.exists /\ file.tasks[u].state = "in_progress"
                /\ ~(out'.cmd = "complete" /\ out'.ok /\ out'.task = u)) =>
               file'.tasks[u] = file.tasks[u] ]_vars

\* T2 was completed while T1 was in progress, and T1 still is
C35_Witness ==
  /\ out.ok
  /\ out.cmd = "complete"
  /\ out.task = "T2"
  /\ file.tasks["T2"].state = "blocked"
  /\ file.tasks["T1"].state = "in_progress"
  /\ file.tasks["T1"].owner = "o1"

----------------------------------------------------------------------------
(* The commands on every plan loadPlan accepts                             *)

InitAccepted ==
  /\ plan \in { p \in AnyPlanDocs : validateDependencies(p) }
  /\ file = EmptyFile
  /\ out = Output("none", "", TRUE, "")
  /\ db = EmptyDb
  /\ dbLock = NoProc
  /\ proc = [ pr \in Procs |-> IdleProc ]
  /\ hist = [ file0 |-> EmptyFile, db0 |-> EmptyDb ]
  /\ dbFile = EmptyFile

SpecAccepted == InitAccepted /\ [][Next]_vars

(* C36: no deadlock on an accepted plan: whenever some task is todo and no *)
(* task is in_progress or blocked, the ready list is not empty.            *)
C36_NoDeadlock ==
  ( /\ file.exists
    /\ \E t \in PlanIds(plan) : Loaded.tasks[t].state = "todo"
    /\ \A t \in PlanIds(plan) : Loaded.tasks[t].state \notin { "in_progress", "blocked" } )
  => getReadyTaskIds(plan, Loaded) # <<>>

(* C37: once both concurrent commands of the SQLite-backed CLI have ended, *)
(* task.status.json holds, for every plan task with a row in task.db, the  *)
(* record committed there.                                                 *)
C37_ExportMatchesDb ==
  BothExited =>
    \A t \in PlanIds(plan) \cap DOMAIN db :
      /\ file.exists
      /\ file.tasks[t] = readTaskRecordFromDb(db, t)

----------------------------------------------------------------------------
(* Every command on the chain T1 <- T2 <- T3, with three worker answers    *)

ChainPlan ==
  [ taskOrder |-> LoopTasks,
    blocked_by |-> [ t \in Range(LoopTasks) |->
                       IF t = "T2" THEN <<"T1">> ELSE IF t = "T3" THEN <<"T2">> ELSE <<>> ] ]

InitTerminal ==
  /\ plan = ChainPlan
  /\ file = EmptyFile
  /\ out = Output("none", "", TRUE, "")
  /\ db = EmptyDb
  /\ dbLock = NoProc
  /\ proc = [ pr \in Procs |-> IdleProc ]
  /\ hist = [ file0 |-> EmptyFile, db0 |-> EmptyDb ]
  /\ dbFile = EmptyFile

\* done, failed without --blockers, blocked on T1
TerminalArgs ==
  { a \in CompleteArgs :
      \/ a.result = "done"
      \/ a.result = "failed"
      \/ a.result = "blocked" /\ a.blockers = <<"T1", "T2">> }

NextTerminal ==
  \/ commandInit
  \/ commandReady
  \/ commandStatus
  \/ \E taskId \in Range(LoopTasks) \cup {""} : commandPrompt(taskId)
  \/ \E taskId \in Range(LoopTasks), owner \in StartOwners : commandStart(taskId, owner)
  \/ \E taskId \in Range(LoopTasks) \cup {""}, owner \in StartOwners :
       commandDispatch(taskId, owner)
  \/ \E taskId \in Range(LoopTasks), a \in TerminalArgs :
       commandComplete(taskId, a.result, a.report, a.blockers, a.owner)

SpecTerminal == InitTerminal /\ [][NextTerminal]_vars

\* t is blocked and one of its blockers is not the ID of a plan task
TerminallyBlocked(t) ==
  /\ file.exists
  /\ file.tasks[t].state = "blocked"
  /\ \E i \in 1..Len(file.tasks[t].blockers) : file.tasks[t].blockers[i] \notin PlanIds(plan)

\* the tasks that depend on t through one or more blocked_by entries
DependentsOf(t) ==
  LET R == UNION { { <<u, plan.blocked_by[u][k]>> : k \in 1..Len(plan.blocked_by[u]) } :
                   u \in PlanIds(plan) }
  IN { u \in PlanIds(plan) : <<u, t>> \in TransitiveClosure(R, Len(plan.taskOrder)) }

\* no command changes the record of a terminally blocked task, and no task
\* that names it in blocked_by is ready
TerminalStaysBlocked ==
  [][ \A t \in PlanIds(plan) :
        TerminallyBlocked(t) =>
          /\ file'.tasks[t] = file.tasks[t]
          /\ \A u \in PlanIds(plan) :
               t \in Range(plan.blocked_by[u]) => u \notin Range(getReadyTaskIds(plan, Loaded)) ]_vars

(* C38: while a task is blocked with a blocker that is not a plan task, no *)
(* task that depends on it, directly or through other tasks, is ready.     *)
C38_DependentsNeverReady ==
  \A t \in PlanIds(plan) :
    TerminallyBlocked(t) =>
      \A u \in DependentsOf(t) : u \notin Range(getReadyTaskIds(plan, Loaded))

====
